---- MODULE Spec2Model ----
(***************************************************************************)
(* A model of the long-running task protocol client (rpc.ts: callRoute,    *)
(* callLiveRoute, RPCerror) and of the chunked byte streamer               *)
(* (FileStreamer.run).                                                     *)
(*                                                                         *)
(* JavaScript values are represented by strings: a JSON value by its JSON  *)
(* text, the value undefined by "undefined".  An Error's stack property is *)
(* not represented.                                                        *)
(***************************************************************************)
EXTENDS Integers, Sequences, FiniteSets, TLC

VARIABLES
  \* ---- callLiveRoute ----
  liveCall,      \* the arguments of the call: route and timeout
  beginRequest,  \* the request passed to fetch for the begin step
  handlers,      \* the kinds for which the caller passed a handler (LiveRouteHandlers)
  endpointValid, \* whether new URL(endpoint) accepts the endpoint string
  livePc,        \* "Idle" | "Opening" | "Streaming" | "Settled"
  beginResp,     \* the outcome of the POST <endpoint>/begin request
  task_id,       \* the task_id destructured from the begin response
  socket,        \* "none" | "connecting" | "connected" | "disconnected"
  joins,         \* the task ids of the join messages emitted so far
  inbound,       \* the events the socket delivered to its listeners so far
  calls,         \* the handler invocations so far, in order
  uncaught,      \* whether the last listener run let an exception escape
  settleCalls,   \* how many times resolve or reject was called
  outcome,       \* what callLiveRoute returned or threw to its caller
  fetches        \* the number of begin requests issued

liveVars == <<liveCall, beginRequest, handlers, endpointValid, livePc, beginResp, task_id, socket, joins,
              inbound, calls, uncaught, settleCalls, outcome, fetches>>

\* ---- FileStreamer ----
VARIABLES
  source,          \* the bytes of the file
  chunkSize,       \* this.chunkSize
  readPos,         \* how many bytes of the source the reader has returned
  buffer,          \* this.buffer
  loadedPointer,   \* this.loadedPointer
  finishedPointer, \* this.finishedPointer
  runPc,           \* where run() is suspended
  chunks,          \* the onChunk invocations so far: <<bytes, offset>> records
  reads,           \* the reader.read() requests issued so far
  emptyReads,      \* the reads so far that returned no bytes
  runError,        \* the failure run() rejected with
  resolved,        \* how many of the onChunk invocations have resolved
  rejection        \* the failure an onChunk invocation rejected with

streamVars == <<source, chunkSize, readPos, buffer, loadedPointer, finishedPointer,
                runPc, chunks, reads, emptyReads, runError, resolved, rejection>>

\* ---- callRoute ----
VARIABLES
  routeCall,     \* the arguments of the call: route and timeout
  routePc,       \* "Idle" | "Fetching" | "Done"
  requests,      \* the requests issued so far
  routeResp,     \* the outcome of the POST <endpoint>/run request
  routeOutcome   \* what callRoute returned or threw to its caller

routeVars == <<routeCall, routePc, requests, routeResp, routeOutcome>>

\* ---- the catch block of callRoute and callLiveRoute ----
VARIABLES
  heap,          \* the objects a thrown value can reach
  thrown,        \* the value thrown inside the try block
  boundary,      \* the function whose catch block catches it
  catchPc,       \* "none" | "try" | "caught"
  rethrown       \* what the catch block throws to the caller

classifyVars == <<heap, thrown, boundary, catchPc, rethrown>>

\* ---- two calls of callLiveRoute at the same time ----
VARIABLES
  pairHandlers,  \* per call: the kinds for which the caller passed a handler
  pairPc,        \* per call: "Idle" | "Streaming" | "Settled"
  pairTask,      \* per call: the task_id of its begin response
  pairSocketOf,  \* per call: the socket io() returned to it
  pairJoins,     \* per call: the task ids of the join messages it emitted
  pairCalls,     \* per call: its handler invocations so far
  pairOutcome,   \* per call: what it returned or threw
  sockState,     \* per socket: "none" | "connecting" | "connected" | "disconnected"
  sockListeners, \* per socket: the calls that registered listeners on it
  sockInbound    \* per socket: the events it delivered so far

pairVars == <<pairHandlers, pairPc, pairTask, pairSocketOf, pairJoins, pairCalls,
              pairOutcome, sockState, sockListeners, sockInbound>>

\* ---- a call of toNearestSerializableObject(value, false, true) ----
VARIABLES
  serValue,      \* the value passed (an object is reached through heap)
  serPc,         \* "none" | "called" | "done"
  serialized     \* what the call returned, as JSON text, or that it threw

serializeVars == <<serValue, serPc, serialized>>

\* ---- onSubmit of the upload page ----
VARIABLES
  upPc,          \* "none" | "newObject" | "streaming" | "create" | "preprocess"
                 \* | "done" | "failed"
  serverCalls,   \* the callRoute calls issued, in order
  replies,       \* what each of them returned, or that it threw, in order
  objectId,      \* what new-object returned
  documentId,    \* what create returned
  started,       \* how many onChunk invocations have begun
  writePc,       \* the onChunk invocation: "idle" | "call" | "resolved" | "rejected"
  writeError,    \* what the onChunk invocation rejected with
  messages,      \* the progress messages added, in order
  uploadError    \* what onSubmit threw to its caller

uploadVars == <<upPc, serverCalls, replies, objectId, documentId, started, writePc,
                writeError, messages, uploadError>>

\* ---- useLiveProgressViewer on the ask page ----
VARIABLES
  progressMessages,  \* the state: the Map of messages, in insertion order
  renderedMessages,  \* progressMessages as the latest render has it
  closureMessages,   \* progressMessages as the render that ran onSubmit has it
  askPc,             \* "none" | "asking" | "settled"
  uuids,             \* how many ids uuidv4() has produced
  returnedId         \* what the last upsertProgressBarByTitle returned

progressVars == <<progressMessages, renderedMessages, closureMessages, askPc, uuids,
                  returnedId>>

\* What an action of one component leaves alone.
notLive == <<streamVars, routeVars, classifyVars, pairVars, serializeVars, uploadVars,
             progressVars>>
notStream == <<liveVars, routeVars, classifyVars, pairVars, serializeVars, uploadVars,
               progressVars>>
notRoute == <<liveVars, streamVars, classifyVars, pairVars, serializeVars, uploadVars,
              progressVars>>
notClassify == <<liveVars, streamVars, routeVars, pairVars, serializeVars, uploadVars,
                 progressVars>>
notPair == <<liveVars, streamVars, routeVars, classifyVars, serializeVars, uploadVars,
             progressVars>>
notSerialize == <<liveVars, streamVars, routeVars, pairVars, thrown, boundary, catchPc,
                  rethrown, uploadVars, progressVars>>
notUpload == <<liveVars, routeVars, classifyVars, pairVars, serializeVars, progressVars>>
notProgress == <<liveVars, streamVars, routeVars, classifyVars, pairVars, serializeVars,
                 uploadVars>>

vars == <<liveVars, streamVars, routeVars, classifyVars, pairVars, serializeVars,
          uploadVars, progressVars>>

\* ---------------------------------------------------------------- bounds

\* Events delivered to one live call before a closing success or fatal_error.
MaxEvents == 3
\* Connect events (the first connect and the reconnects) of one socket.
MaxConnects == 2
\* Length of the byte source.
MaxLen == 5
\* Largest chunkSize.
MaxChunk == 3
\* Largest number of bytes one read of the underlying reader returns.
MaxRead == 3
\* Reads that return no bytes (an empty array, or no value) in one run.
MaxEmptyReads == 1
\* Events delivered on one socket of two concurrent calls before a closing
\* success or fatal_error.
MaxPairEvents == 2
MaxUuids == 4

\* ---------------------------------------------------------------- values

UNDEF == "undefined"
NA == "-"

\* The cause of an RPCerror, after toNearestSerializableObject.
NoCause == [kind |-> "none", status |-> 0, data |-> NA, body |-> NA, message |-> NA]

NoError == [type |-> "none", message |-> NA, cause |-> NoCause]

\* A JavaScript Error object of class `type` (no cause property is set).
JsError(type, message) == [type |-> type, message |-> message, cause |-> NoCause]

\* class RPCerror: the message goes to Error, the cause is stored as given.
RPCerror(message, cause) == [type |-> "RPCerror", message |-> message, cause |-> cause]

\* toNearestSerializableObject(e, false, true) of an Error object: its own
\* property names are stack and message; a non-RPC Error carries no cause.
SerializeError(e) ==
  [kind |-> "exception", status |-> 0, data |-> NA, body |-> NA, message |-> e.message]

\* toNearestSerializableObject({status, data, body}, false, true): recursion()
\* turns an undefined data into null, so the data key is always present.
SerializeHttp(status, parsed, body) ==
  [kind |-> "http", status |-> status,
   data |-> IF parsed.parsable THEN parsed.data ELSE "null",
   body |-> body, message |-> NA]

\* ------------------------------------------------- thrown JavaScript values

\* Objects are reached by reference.  An object has a class and two slots:
\* the properties x and y of a plain object, the elements of an array, the
\* own properties message and cause of an Error; NA is an absent slot.
Refs == {"#1", "#2"}
FUNC == "function"
SerializablePrimitives == {"1", "null"}
SlotValues == SerializablePrimitives \cup {UNDEF, FUNC, NA} \cup Refs
Classes == {"Object", "Array", "Error", "RPCerror"}

\* The values thrown, or passed to toNearestSerializableObject.
ThrownValues == SerializablePrimitives \cup {UNDEF, FUNC} \cup {"#1"}

EmptyHeap == [r \in Refs |-> [class |-> "Object", x |-> NA, y |-> NA]]

\* isSerializablePrimitive
isSerializablePrimitive(value) == value \in SerializablePrimitives

\* JSON text of a member, of a list of members, of an object or an array.
Member(key, text) == IF text = NA THEN NA ELSE "\"" \o key \o "\":" \o text
Join(a, b) == IF a = NA THEN b ELSE IF b = NA THEN a ELSE a \o "," \o b
Wrap(open, inner, close) == open \o (IF inner = NA THEN "" ELSE inner) \o close

\* Object.getOwnPropertyNames: the name of the first and of the second slot.
\* An RPCerror has the own property name between them.
FirstKey(class) == IF class = "Object" THEN "x" ELSE "message"
SecondKey(class) == IF class = "Object" THEN "y" ELSE "cause"
NameMember(class) == IF class = "RPCerror" THEN Member("name", "\"RPCError\"") ELSE NA

\* recursion(value) of toNearestSerializableObject, with the seenItems set
\* before the call: the JSON text of the result and the set after the call.
RECURSIVE recursion(_, _, _)
recursion(h, value, seenItems) ==
  IF isSerializablePrimitive(value)
    THEN [text |-> value, seen |-> seenItems]
  ELSE IF value \in Refs
    THEN IF value \in seenItems
           THEN [text |-> "null", seen |-> seenItems]
           ELSE LET o == h[value]
                    s0 == seenItems \cup {value}
                    r1 == IF o.x = NA THEN [text |-> NA, seen |-> s0]
                                      ELSE recursion(h, o.x, s0)
                    r2 == IF o.y = NA THEN [text |-> NA, seen |-> r1.seen]
                                      ELSE recursion(h, o.y, r1.seen)
                IN  IF o.class = "Array"
                      THEN [text |-> Wrap("[", Join(r1.text, r2.text), "]"),
                            seen |-> r2.seen]
                      ELSE [text |-> Wrap("{",
                                      Join(Join(Member(FirstKey(o.class), r1.text),
                                                NameMember(o.class)),
                                           Member(SecondKey(o.class), r2.text)),
                                      "}"),
                            seen |-> r2.seen]
  ELSE [text |-> "null", seen |-> seenItems]

NotSerialized == [threw |-> FALSE, text |-> NA]

\* Mutant: without the test of the top-level value.
toNearestWithoutTopLevelTest(h, value) ==
  [threw |-> FALSE, text |-> recursion(h, value, {}).text]

\* toNearestSerializableObject(value, false, true): it throws when the value
\* is neither a serializable primitive nor an object.
toNearestSerializableObject(h, value) ==
  IF ~isSerializablePrimitive(value) /\ value \notin Refs
    THEN [threw |-> TRUE, text |-> NA]
    ELSE [threw |-> FALSE, text |-> recursion(h, value, {}).text]

\* What a catch block throws: the object (a caught one, or "new"), its
\* class, its message and its cause.
NothingThrown == [ref |-> NA, class |-> NA, message |-> NA, cause |-> NA]
Rethrow(h, e) == [ref |-> e, class |-> h[e].class, message |-> h[e].x, cause |-> h[e].y]
ThrowNew(class, message, cause) ==
  [ref |-> "new", class |-> class, message |-> message, cause |-> cause]

TopLevelMessage == "Provided value is not serializable at the top level"

\* Mutant: a caught RPCerror is copied into a new one.
ClassifyCopies(h, e) ==
  IF e \in Refs /\ h[e].class = "RPCerror"
    THEN ThrowNew("RPCerror", h[e].x, h[e].y)
    ELSE LET c == toNearestSerializableObject(h, e) IN
         IF c.threw
           THEN ThrowNew("Error", TopLevelMessage, NA)
           ELSE ThrowNew("RPCerror", "An unexpected error occurred", c.text)

\* The catch block of callRoute and of callLiveRoute (the same text): an
\* RPCerror is thrown on, any other value is wrapped, and an exception of
\* toNearestSerializableObject leaves the catch block.
Classify(h, e) ==
  IF e \in Refs /\ h[e].class = "RPCerror"
    THEN Rethrow(h, e)
    ELSE LET c == toNearestSerializableObject(h, e) IN
         IF c.threw
           THEN ThrowNew("Error", TopLevelMessage, NA)
           ELSE ThrowNew("RPCerror", "An unexpected error occurred", c.text)

\* ------------------------------------------------------- HTTP responses

JsonBodies == {"null", "{}", "{\"task_id\":\"t1\"}", "{\"task_id\":\"t2\"}"}
Bodies == JsonBodies \cup {"", "<html>"}

\* The body texts answered to callRoute: more JSON texts, among them the
\* falsy values and a number written in another way than JSON.stringify does.
JsonTexts == JsonBodies \cup {"false", "0", "\"\"", "0.0"}
RouteBodies == JsonTexts \cup {"", "<html>"}
Statuses == {200, 400, 401, 403, 404, 500, 502, 418}

\* The messages of the exceptions fetch() and response.text() throw.
Exceptions == {"Failed to fetch", "Failed to read the response body"}

\* An outcome of fetch + response.text(): either of them throws (failed), or
\* a status and a body text arrive.
Responses ==
  [failed : {TRUE}, status : {0}, body : {NA}, exception : Exceptions] \cup
  [failed : {FALSE}, status : Statuses, body : Bodies, exception : {NA}]

RouteResponses ==
  [failed : {TRUE}, status : {0}, body : {NA}, exception : Exceptions] \cup
  [failed : {FALSE}, status : Statuses, body : RouteBodies, exception : {NA}]

\* response.ok
Ok(status) == status >= 200 /\ status <= 299

\* JSON.parse of a JSON text: the value, written as JSON.stringify writes it.
JsonParse(text) == IF text = "0.0" THEN "0" ELSE text

\* safeParse: JSON.parse of the body text, or parsable: false.
safeParse(text) ==
  IF text \in JsonTexts
    THEN [parsable |-> TRUE, data |-> JsonParse(text)]
    ELSE [parsable |-> FALSE, data |-> UNDEF]

\* The status table of callRoute.
StatusMessage(status) ==
  CASE status = 400 -> "Invalid Route Name or Arguments"
    [] status = 401 -> "Not Authenticated"
    [] status = 403 -> "Insufficient Permission"
    [] status = 500 -> "Unknown Backend Server Error"
    [] status = 502 -> "Bad Gateway (Backend server may be off.)"
    [] status = 404 -> "Endpoint Not Found (Check endpoint URL.)"
    [] OTHER -> "Unkown Error"

\* The status table of callLiveRoute's begin step.
BeginStatusMessage(status) ==
  CASE status = 400 -> "Invalid Route Name or Arguments"
    [] status = 401 -> "Not Authenticated"
    [] status = 403 -> "Insufficient Permission"
    [] status = 500 -> "Unknown Backend Server Error"
    [] status = 502 -> "Bad Gateway (Backend server may be off.)"
    [] status = 404 -> "Endpoint Not Found (Check endpoint URL.)"
    [] OTHER -> "Unkown Error"

NotJsonMessage ==
  "Server responded with success http code, but response body was not valid json. This is not expected."

UnexpectedMessage == "An unexpected error occurred"

\* What a call hands to its caller.
Pending == [kind |-> "pending", value |-> NA, error |-> NoError]
Returned(v) == [kind |-> "returned", value |-> v, error |-> NoError]
Threw(e) == [kind |-> "threw", value |-> NA, error |-> e]

\* Mutant: the catch block without its instanceof test wraps every error.
RouteCatchAlwaysWraps(e) == RPCerror(UnexpectedMessage, SerializeError(e))

\* Mutant: the catch block wraps without passing the serialized exception.
RouteCatchDropsCause(e) ==
  IF e.type = "RPCerror" THEN e ELSE RPCerror(UnexpectedMessage, NoCause)

\* The catch block of callRoute.
RouteCatch(e) ==
  IF e.type = "RPCerror" THEN e ELSE RPCerror(UnexpectedMessage, SerializeError(e))

\* Mutant: the catch block without its instanceof test wraps every error.
LiveCatchAlwaysWraps(e) == RPCerror(UnexpectedMessage, SerializeError(e))

\* The catch block of callLiveRoute.
LiveCatch(e) ==
  IF e.type = "RPCerror" THEN e ELSE RPCerror(UnexpectedMessage, SerializeError(e))

\* Mutant: the body-parse check comes before the status check.
callRouteParsesFirst(resp) ==
  IF resp.failed
    THEN Threw(RouteCatch(JsError("TypeError", resp.exception)))
    ELSE LET parsed == safeParse(resp.body) IN
         IF ~parsed.parsable
           THEN Threw(RouteCatch(RPCerror(NotJsonMessage, NoCause)))
         ELSE IF ~Ok(resp.status)
           THEN Threw(RouteCatch(RPCerror(StatusMessage(resp.status),
                                          SerializeHttp(resp.status, parsed, resp.body))))
         ELSE Returned(parsed.data)

\* Mutant: a falsy payload is taken for a body that did not parse.
callRouteFalsyFails(resp) ==
  IF resp.failed
    THEN Threw(RouteCatch(JsError("TypeError", resp.exception)))
    ELSE LET parsed == safeParse(resp.body) IN
         IF ~Ok(resp.status)
           THEN Threw(RouteCatch(RPCerror(StatusMessage(resp.status),
                                          SerializeHttp(resp.status, parsed, resp.body))))
         ELSE IF ~parsed.parsable \/ parsed.data \in {"null", "false", "0", "\"\""}
           THEN Threw(RouteCatch(RPCerror(NotJsonMessage, NoCause)))
         ELSE Returned(parsed.data)

\* callRoute, from the response to what the caller gets.
callRoute(resp) ==
  IF resp.failed
    THEN Threw(RouteCatch(JsError("TypeError", resp.exception)))
    ELSE LET parsed == safeParse(resp.body) IN
         IF ~Ok(resp.status)
           THEN Threw(RouteCatch(RPCerror(StatusMessage(resp.status),
                                          SerializeHttp(resp.status, parsed, resp.body))))
         ELSE IF ~parsed.parsable
           THEN Threw(RouteCatch(RPCerror(NotJsonMessage, NoCause)))
         ELSE Returned(parsed.data)

\* const { task_id } = data: null cannot be destructured (TypeError); a
\* value without the property gives undefined.
Destructure(data) ==
  CASE data = "null" ->
         [threw |-> TRUE, task_id |-> UNDEF]
    [] data = "{\"task_id\":\"t1\"}" -> [threw |-> FALSE, task_id |-> "t1"]
    [] data = "{\"task_id\":\"t2\"}" -> [threw |-> FALSE, task_id |-> "t2"]
    [] OTHER -> [threw |-> FALSE, task_id |-> UNDEF]

\* The begin step of callLiveRoute up to the destructuring of task_id: the
\* error it throws (before the catch block), or "none" with the task id.
BeginStep(resp) ==
  IF resp.failed
    THEN [error |-> JsError("TypeError", resp.exception), task_id |-> UNDEF]
    ELSE LET parsed == safeParse(resp.body) IN
         IF ~Ok(resp.status)
           THEN [error |-> RPCerror(BeginStatusMessage(resp.status),
                                    SerializeHttp(resp.status, parsed, resp.body)),
                 task_id |-> UNDEF]
         ELSE IF ~parsed.parsable
           THEN [error |-> RPCerror(NotJsonMessage, NoCause), task_id |-> UNDEF]
         ELSE LET d == Destructure(parsed.data) IN
              IF d.threw
                THEN [error |-> JsError("TypeError", "Cannot destructure property 'task_id'"),
                      task_id |-> UNDEF]
                ELSE [error |-> NoError, task_id |-> d.task_id]

\* ---------------------------------------------------------------- events

HandlerKinds == {"progress", "warning", "update", "error", "fatal_error"}
Results == {"null", "false", "0", UNDEF, "{\"answer\":\"a\"}"}

Event(kind, data, message, cause) ==
  [kind |-> kind, data |-> data, message |-> message, cause |-> cause]

ProgressEvents == {Event("progress", d, NA, NA) : d \in {"1/2", "2/2"}}
WarningEvents == {Event("warning", NA, "w", NA)}
UpdateEvents == {Event("update", NA, "u", NA)}
ErrorEvents == {Event("error", NA, "e", NA)}
FatalEvents == {Event("fatal_error", NA, "boom", c) : c \in {UNDEF, "{\"code\":1}"}}
SuccessEvents == {Event("success", r, NA, NA) : r \in Results}

AllEvents ==
  ProgressEvents \cup WarningEvents \cup UpdateEvents \cup ErrorEvents
    \cup FatalEvents \cup SuccessEvents

\* The arguments of a call that is not made.
NoCall == [route |-> NA, timeout |-> UNDEF]

NoRequest == [method |-> NA, path |-> NA, task |-> NA, signal |-> NA]

\* Mutant: the signal option as in the lines that are commented out.
RequestWithSignal(path, call) ==
  [method |-> "POST", path |-> path, task |-> call.route,
   signal |-> IF call.timeout = UNDEF
                THEN UNDEF
                ELSE "AbortSignal.timeout(" \o call.timeout \o ")"]

\* The options passed to fetch: method, body {task: route, args}; the
\* signal option is commented out.
Request(path, call) ==
  [method |-> "POST", path |-> path, task |-> call.route, signal |-> UNDEF]

\* fetch(endpoint + "/run", ...) of callRoute
RouteRequest(call) == Request("/run", call)

\* fetch(endpoint + "/begin", ...) of callLiveRoute
BeginRequest(call) == Request("/begin", call)

NoResponse == [failed |-> FALSE, status |-> 0, body |-> NA, exception |-> NA]

\* ------------------------------------------------- callLiveRoute: state

LiveAtRest ==
  /\ livePc = "Idle"
  /\ beginRequest = NoRequest
  /\ beginResp = NoResponse
  /\ task_id = UNDEF
  /\ socket = "none"
  /\ joins = <<>>
  /\ inbound = <<>>
  /\ calls = <<>>
  /\ uncaught = FALSE
  /\ settleCalls = 0
  /\ outcome = Pending
  /\ fetches = 0

StreamAtRest ==
  /\ source = <<>>
  /\ chunkSize = 1
  /\ readPos = 0
  /\ buffer = <<>>
  /\ loadedPointer = 0
  /\ finishedPointer = 0
  /\ runPc = "new"
  /\ chunks = <<>>
  /\ reads = 0
  /\ emptyReads = 0
  /\ runError = NA
  /\ resolved = 0
  /\ rejection = NA

RouteAtRest ==
  /\ routeCall = NoCall
  /\ routePc = "Idle"
  /\ requests = <<>>
  /\ routeResp = NoResponse
  /\ routeOutcome = Pending

Calls == {"A", "B"}
SocketIds == {"s1", "s2"}

PairAtRest ==
  /\ pairHandlers = [c \in Calls |-> {}]
  /\ pairPc = [c \in Calls |-> "Idle"]
  /\ pairTask = [c \in Calls |-> UNDEF]
  /\ pairSocketOf = [c \in Calls |-> NA]
  /\ pairJoins = [c \in Calls |-> <<>>]
  /\ pairCalls = [c \in Calls |-> <<>>]
  /\ pairOutcome = [c \in Calls |-> Pending]
  /\ sockState = [s \in SocketIds |-> "none"]
  /\ sockListeners = [s \in SocketIds |-> {}]
  /\ sockInbound = [s \in SocketIds |-> <<>>]

SerializeAtRest ==
  /\ serValue = NA
  /\ serPc = "none"
  /\ serialized = NotSerialized

UploadAtRest ==
  /\ upPc = "none"
  /\ serverCalls = <<>>
  /\ replies = <<>>
  /\ objectId = NA
  /\ documentId = NA
  /\ started = 0
  /\ writePc = "idle"
  /\ writeError = NA
  /\ messages = <<>>
  /\ uploadError = NA

ProgressAtRest ==
  /\ progressMessages = <<>>
  /\ renderedMessages = <<>>
  /\ closureMessages = <<>>
  /\ askPc = "none"
  /\ uuids = 0
  /\ returnedId = 0

ClassifyAtRest ==
  /\ heap = EmptyHeap
  /\ thrown = NA
  /\ boundary = NA
  /\ catchPc = "none"
  /\ rethrown = NothingThrown

\* A call of callLiveRoute with any subset of the handlers and an endpoint
\* that new URL() accepts or not.
InitLive ==
  /\ liveCall = [route |-> "/documents/ask", timeout |-> UNDEF]
  /\ handlers \in SUBSET HandlerKinds
  /\ endpointValid \in BOOLEAN
  /\ LiveAtRest
  /\ StreamAtRest
  /\ RouteAtRest
  /\ ClassifyAtRest
  /\ SerializeAtRest
  /\ UploadAtRest
  /\ ProgressAtRest
  /\ PairAtRest

\* ----------------------------------------------- callLiveRoute: actions

\* await fetch(endpoint + "/begin", ...)
IssueBeginOf(call) ==
  /\ livePc = "Idle"
  /\ call.route # NA
  /\ livePc' = "Opening"
  /\ fetches' = fetches + 1
  /\ beginRequest' = BeginRequest(call)
  /\ UNCHANGED <<liveCall, handlers, endpointValid, beginResp, task_id, socket, joins, inbound,
                 calls, uncaught, settleCalls, outcome>>
  /\ UNCHANGED notLive

IssueBegin == IssueBeginOf(liveCall)

\* new URL(endpoint) inside the promise executor: a throw rejects the promise.
UrlError == JsError("TypeError", "Invalid URL")

\* Mutant: a failed begin step is tried once more.
BeginResponseRetries(resp) ==
  /\ livePc = "Opening"
  /\ beginResp' = resp
  /\ LET b == BeginStep(resp) IN
       IF b.error.type # "none"
         THEN /\ IF fetches < 2
                   THEN livePc' = "Idle" /\ UNCHANGED outcome
                   ELSE outcome' = Threw(LiveCatch(b.error)) /\ livePc' = "Settled"
              /\ UNCHANGED <<task_id, socket>>
       ELSE IF ~endpointValid
         THEN /\ outcome' = Threw(LiveCatch(UrlError))
              /\ livePc' = "Settled"
              /\ task_id' = b.task_id
              /\ UNCHANGED socket
       ELSE /\ task_id' = b.task_id
            /\ socket' = "connecting"
            /\ livePc' = "Streaming"
            /\ UNCHANGED outcome
  /\ UNCHANGED <<liveCall, beginRequest, handlers, endpointValid, joins, inbound, calls,
                 uncaught, settleCalls, fetches>>
  /\ UNCHANGED notLive

\* The begin response arrives: the body of the try block up to the point
\* where the promise is awaited (socket created, listeners registered).
BeginResponse(resp) ==
  /\ livePc = "Opening"
  /\ beginResp' = resp
  /\ LET b == BeginStep(resp) IN
       IF b.error.type # "none"
         THEN /\ outcome' = Threw(LiveCatch(b.error))
              /\ livePc' = "Settled"
              /\ UNCHANGED <<task_id, socket>>
       ELSE IF ~endpointValid
         THEN /\ outcome' = Threw(LiveCatch(UrlError))
              /\ livePc' = "Settled"
              /\ task_id' = b.task_id
              /\ UNCHANGED socket
       ELSE /\ task_id' = b.task_id
            /\ socket' = "connecting"
            /\ livePc' = "Streaming"
            /\ UNCHANGED outcome
  /\ UNCHANGED <<liveCall, beginRequest, handlers, endpointValid, joins, inbound, calls, uncaught, settleCalls,
                 fetches>>
  /\ UNCHANGED notLive

\* socket.on("connect", ...): on the first connect and on every reconnect.
OnConnect ==
  /\ socket = "connecting"
  /\ Len(joins) < MaxConnects
  /\ socket' = "connected"
  /\ joins' = Append(joins, task_id)
  /\ UNCHANGED <<liveCall, beginRequest, handlers, endpointValid, livePc, beginResp, task_id, inbound, calls,
                 uncaught, settleCalls, outcome, fetches>>
  /\ UNCHANGED notLive

\* The transport is lost; socket.io-client reconnects on its own.
TransportLost ==
  /\ socket = "connected"
  /\ socket' = "connecting"
  /\ UNCHANGED <<liveCall, beginRequest, handlers, endpointValid, livePc, beginResp, task_id, joins, inbound,
                 calls, uncaught, settleCalls, outcome, fetches>>
  /\ UNCHANGED notLive

TerminalKinds == {"success", "fatal_error"}

\* An event reaches the listeners of a connected socket only.
Delivered(data) ==
  /\ socket = "connected"
  /\ Len(inbound) < MaxEvents + (IF data.kind \in TerminalKinds THEN 1 ELSE 0)
  /\ inbound' = Append(inbound, data)

HandlerName(kind) ==
  CASE kind = "progress" -> "onProgress"
    [] kind = "warning" -> "onWarning"
    [] kind = "update" -> "onUpdate"
    [] kind = "error" -> "onError"
    [] kind = "fatal_error" -> "onFatalError"

\* Mutant: handlers.onX(data) without the optional call: calling a missing
\* handler throws a TypeError out of the listener.
InvokeUnchecked(kind, data) ==
  IF kind \in handlers
    THEN /\ calls' = Append(calls, [handler |-> HandlerName(kind), arg |-> data])
         /\ uncaught' \in BOOLEAN
    ELSE /\ calls' = calls
         /\ uncaught' = TRUE

\* handlers.onX?.(data): the handler runs if the caller passed one, and it
\* may throw; the exception leaves the listener.
Invoke(kind, data) ==
  IF kind \in handlers
    THEN /\ calls' = Append(calls, [handler |-> HandlerName(kind), arg |-> data])
         /\ uncaught' \in BOOLEAN
    ELSE /\ calls' = calls
         /\ uncaught' = FALSE

\* socket.disconnect()
Disconnect == socket' = "disconnected"

\* resolve(value) of the promise callLiveRoute awaits; the call returns it.
Resolve(value) ==
  /\ settleCalls' = settleCalls + 1
  /\ IF outcome.kind = "pending"
       THEN outcome' = Returned(value) /\ livePc' = "Settled"
       ELSE UNCHANGED <<outcome, livePc>>

\* reject(e): the await throws e into the catch block of callLiveRoute.
Reject(e) ==
  /\ settleCalls' = settleCalls + 1
  /\ IF outcome.kind = "pending"
       THEN outcome' = Threw(LiveCatch(e)) /\ livePc' = "Settled"
       ELSE UNCHANGED <<outcome, livePc>>

\* A listener that only forwards to its handler.
Forward(kind, data) ==
  /\ Delivered(data)
  /\ Invoke(kind, data)
  /\ UNCHANGED <<liveCall, beginRequest, handlers, endpointValid, livePc, beginResp, task_id, socket, joins,
                 settleCalls, outcome, fetches>>
  /\ UNCHANGED notLive

\* Mutant: the update listener forwards to the warning handler.
OnUpdateToWarning(data) == Forward("warning", data)

\* Mutant: the error listener ends the call like the fatal_error listener.
OnErrorAborts(data) ==
  /\ Delivered(data)
  /\ Invoke("error", data)
  /\ Disconnect
  /\ Reject(JsError("Error", data.message))
  /\ UNCHANGED <<liveCall, beginRequest, handlers, endpointValid, beginResp, task_id, joins, fetches>>
  /\ UNCHANGED notLive

OnProgress(data) == Forward("progress", data)

OnWarning(data) == Forward("warning", data)

OnUpdate(data) == Forward("update", data)

OnError(data) == Forward("error", data)

\* new Error(data.message)
FatalRejection(data) == JsError("Error", data.message)

OnFatalError(data) ==
  /\ Delivered(data)
  /\ Invoke("fatal_error", data)
  /\ IF uncaught'
       THEN UNCHANGED <<socket, settleCalls, outcome, livePc>>
       ELSE Disconnect /\ Reject(FatalRejection(data))
  /\ UNCHANGED <<liveCall, beginRequest, handlers, endpointValid, beginResp, task_id, joins, fetches>>
  /\ UNCHANGED notLive

\* Mutant: data.result || null.
SuccessResultOrNull(data) ==
  IF data.data \in {"false", "0", UNDEF} THEN "null" ELSE data.data

\* data.result
SuccessResult(data) == data.data

OnSuccess(data) ==
  /\ Delivered(data)
  /\ Disconnect
  /\ Resolve(SuccessResult(data))
  /\ UNCHANGED <<liveCall, beginRequest, handlers, endpointValid, beginResp, task_id, joins, calls, fetches>>
  /\ uncaught' = FALSE
  /\ UNCHANGED notLive

NextLive ==
  \/ IssueBegin
  \/ \E resp \in Responses : BeginResponse(resp)
  \/ OnConnect
  \/ TransportLost
  \/ \E data \in ProgressEvents : OnProgress(data)
  \/ \E data \in WarningEvents : OnWarning(data)
  \/ \E data \in UpdateEvents : OnUpdate(data)
  \/ \E data \in ErrorEvents : OnError(data)
  \/ \E data \in FatalEvents : OnFatalError(data)
  \/ \E data \in SuccessEvents : OnSuccess(data)

SpecLive == InitLive /\ [][NextLive]_vars

\* ------------------------------------------------------------- callRoute

Routes == {"/files/upload/new-object", "/documents/create"}
Timeouts == {UNDEF, "5000"}

\* A call of callRoute with any route and with or without a timeout.
InitRoute ==
  /\ routeCall \in [route : Routes, timeout : Timeouts]
  /\ routePc = "Idle"
  /\ requests = <<>>
  /\ routeResp = NoResponse
  /\ routeOutcome = Pending
  /\ liveCall = NoCall
  /\ handlers = {}
  /\ endpointValid = TRUE
  /\ LiveAtRest
  /\ StreamAtRest
  /\ ClassifyAtRest
  /\ SerializeAtRest
  /\ UploadAtRest
  /\ ProgressAtRest
  /\ PairAtRest

\* await fetch(endpoint + "/run", {method: "POST", body: {task: route, args}});
\* the signal built from the timeout is commented out.
RouteFetchOf(call) ==
  /\ routePc = "Idle"
  /\ call.route # NA
  /\ routePc' = "Fetching"
  /\ requests' = Append(requests, RouteRequest(call))
  /\ UNCHANGED <<routeCall, routeResp, routeOutcome>>
  /\ UNCHANGED notRoute

RouteFetch == RouteFetchOf(routeCall)

\* The response arrives (or fetch or response.text() throws): callRoute
\* returns or throws.
RouteResponse(resp) ==
  /\ routePc = "Fetching"
  /\ routePc' = "Done"
  /\ routeResp' = resp
  /\ routeOutcome' = callRoute(resp)
  /\ UNCHANGED <<routeCall, requests>>
  /\ UNCHANGED notRoute

NextRoute ==
  \/ RouteFetch
  \/ \E resp \in RouteResponses : RouteResponse(resp)

SpecRoute == InitRoute /\ [][NextRoute]_vars

\* ------------------------------------------- one call, of either function

\* The program makes one call: of callLiveRoute, with no handlers, with the
\* two handlers of the ask page or with all of them, or of callRoute; with
\* or without a timeout.
InitCalls ==
  /\ \/ /\ liveCall \in [route : {"/documents/ask"}, timeout : Timeouts]
        /\ handlers \in {{}, {"progress", "update"}, HandlerKinds}
        /\ endpointValid \in BOOLEAN
        /\ RouteAtRest
     \/ /\ liveCall = NoCall
        /\ handlers = {}
        /\ endpointValid = TRUE
        /\ routeCall \in [route : Routes, timeout : Timeouts]
        /\ routePc = "Idle"
        /\ requests = <<>>
        /\ routeResp = NoResponse
        /\ routeOutcome = Pending
  /\ LiveAtRest
  /\ StreamAtRest
  /\ ClassifyAtRest
  /\ SerializeAtRest
  /\ UploadAtRest
  /\ ProgressAtRest
  /\ PairAtRest

NextCalls == NextLive \/ NextRoute

SpecCalls == InitCalls /\ [][NextCalls]_vars

\* The runtime runs the call up to its fetch, and fetch settles.  Whether
\* the socket connects and what the server emits is up to the environment.
SpecCallsFair ==
  /\ SpecCalls
  /\ WF_vars(IssueBegin)
  /\ WF_vars(\E resp \in Responses : BeginResponse(resp))
  /\ WF_vars(RouteFetch)
  /\ WF_vars(\E resp \in RouteResponses : RouteResponse(resp))

\* ------------------------------------- two calls of callLiveRoute at once

PairEvents ==
  {Event("progress", "1/2", NA, NA), Event("fatal_error", NA, "boom", UNDEF),
   Event("success", "null", NA, NA)}

PairResponses ==
  {[failed |-> FALSE, status |-> 200, body |-> "{\"task_id\":\"t1\"}", exception |-> NA],
   [failed |-> FALSE, status |-> 200, body |-> "{\"task_id\":\"t2\"}", exception |-> NA],
   [failed |-> FALSE, status |-> 500, body |-> "", exception |-> NA]}

\* Mutant: io() hands out the socket that is already open for the URL.
ioShared(listeners) == "s1"

\* io(socketBase, {path}): a call gets a socket of its own: the namespace
\* of an earlier call is in use, which makes the client create a new one.
io(listeners) == IF listeners["s1"] = {} THEN "s1" ELSE "s2"

\* Two calls to the same endpoint, each with handlers of its own.
InitPair ==
  /\ pairHandlers \in [Calls -> {{}, {"progress"}, {"progress", "fatal_error"}}]
  /\ pairPc = [c \in Calls |-> "Idle"]
  /\ pairTask = [c \in Calls |-> UNDEF]
  /\ pairSocketOf = [c \in Calls |-> NA]
  /\ pairJoins = [c \in Calls |-> <<>>]
  /\ pairCalls = [c \in Calls |-> <<>>]
  /\ pairOutcome = [c \in Calls |-> Pending]
  /\ sockState = [s \in SocketIds |-> "none"]
  /\ sockListeners = [s \in SocketIds |-> {}]
  /\ sockInbound = [s \in SocketIds |-> <<>>]
  /\ liveCall = NoCall
  /\ handlers = {}
  /\ endpointValid = TRUE
  /\ LiveAtRest
  /\ StreamAtRest
  /\ RouteAtRest
  /\ ClassifyAtRest
  /\ SerializeAtRest
  /\ UploadAtRest
  /\ ProgressAtRest

\* Call c runs from its begin request to the await of its promise: the
\* begin step fails, or the socket is created and the listeners registered.
PairBegin(c, resp) ==
  /\ pairPc[c] = "Idle"
  /\ LET b == BeginStep(resp)
         s == io(sockListeners)
     IN  IF b.error.type # "none"
           THEN /\ pairOutcome' = [pairOutcome EXCEPT ![c] = Threw(LiveCatch(b.error))]
                /\ pairPc' = [pairPc EXCEPT ![c] = "Settled"]
                /\ UNCHANGED <<pairTask, pairSocketOf, sockState, sockListeners>>
           ELSE /\ pairTask' = [pairTask EXCEPT ![c] = b.task_id]
                /\ pairSocketOf' = [pairSocketOf EXCEPT ![c] = s]
                /\ sockListeners' = [sockListeners EXCEPT ![s] = @ \cup {c}]
                /\ sockState' = [sockState EXCEPT
                                   ![s] = IF @ = "none" THEN "connecting" ELSE @]
                /\ pairPc' = [pairPc EXCEPT ![c] = "Streaming"]
                /\ UNCHANGED pairOutcome
  /\ UNCHANGED <<pairHandlers, pairJoins, pairCalls, sockInbound>>
  /\ UNCHANGED notPair

\* Socket s connects: every connect listener on it emits its join.
PairConnect(s) ==
  /\ sockState[s] = "connecting"
  /\ \A c \in sockListeners[s] : Len(pairJoins[c]) < MaxConnects
  /\ sockState' = [sockState EXCEPT ![s] = "connected"]
  /\ pairJoins' = [c \in Calls |->
                     IF c \in sockListeners[s]
                       THEN Append(pairJoins[c], pairTask[c])
                       ELSE pairJoins[c]]
  /\ UNCHANGED <<pairHandlers, pairPc, pairTask, pairSocketOf, pairCalls, pairOutcome,
                 sockListeners, sockInbound>>
  /\ UNCHANGED notPair

\* The transport of socket s is lost; the client reconnects on its own.
PairLost(s) ==
  /\ sockState[s] = "connected"
  /\ sockState' = [sockState EXCEPT ![s] = "connecting"]
  /\ UNCHANGED <<pairHandlers, pairPc, pairTask, pairSocketOf, pairJoins, pairCalls,
                 pairOutcome, sockListeners, sockInbound>>
  /\ UNCHANGED notPair

\* Socket s delivers an event to the listeners registered on it.
PairDelivered(s, data) ==
  /\ sockState[s] = "connected"
  /\ Len(sockInbound[s]) < MaxPairEvents + (IF data.kind \in TerminalKinds THEN 1 ELSE 0)
  /\ sockInbound' = [sockInbound EXCEPT ![s] = Append(@, data)]

\* handlers.onX?.(data) of every call listening on socket s.
PairInvoke(s, kind, data) ==
  pairCalls' = [c \in Calls |->
                 IF c \in sockListeners[s] /\ kind \in pairHandlers[c]
                   THEN Append(pairCalls[c], [handler |-> HandlerName(kind), arg |-> data])
                   ELSE pairCalls[c]]

\* The progress listeners on socket s.
PairProgress(s, data) ==
  /\ data.kind = "progress"
  /\ PairDelivered(s, data)
  /\ PairInvoke(s, "progress", data)
  /\ UNCHANGED <<pairHandlers, pairPc, pairTask, pairSocketOf, pairJoins, pairOutcome,
                 sockState, sockListeners>>
  /\ UNCHANGED notPair

\* The calls on socket s that settle with the given outcome: those whose
\* listener got to its end and whose promise is still pending.
PairSettle(settling, result) ==
  /\ pairOutcome' = [c \in Calls |->
                       IF c \in settling /\ pairOutcome[c].kind = "pending"
                         THEN result
                         ELSE pairOutcome[c]]
  /\ pairPc' = [c \in Calls |->
                  IF c \in settling /\ pairOutcome[c].kind = "pending"
                    THEN "Settled"
                    ELSE pairPc[c]]

\* The fatal_error listeners on socket s; the onFatalError handler of the
\* calls in throwing throws, which ends their listener.
PairFatalError(s, data, throwing) ==
  /\ data.kind = "fatal_error"
  /\ throwing \subseteq {c \in sockListeners[s] : "fatal_error" \in pairHandlers[c]}
  /\ PairDelivered(s, data)
  /\ PairInvoke(s, "fatal_error", data)
  /\ sockState' = [sockState EXCEPT
                     ![s] = IF sockListeners[s] \ throwing # {} THEN "disconnected" ELSE @]
  /\ PairSettle(sockListeners[s] \ throwing, Threw(LiveCatch(FatalRejection(data))))
  /\ UNCHANGED <<pairHandlers, pairTask, pairSocketOf, pairJoins, sockListeners>>
  /\ UNCHANGED notPair

\* The success listeners on socket s.
PairSuccess(s, data) ==
  /\ data.kind = "success"
  /\ PairDelivered(s, data)
  /\ sockState' = [sockState EXCEPT ![s] = "disconnected"]
  /\ PairSettle(sockListeners[s], Returned(SuccessResult(data)))
  /\ UNCHANGED <<pairHandlers, pairTask, pairSocketOf, pairJoins, pairCalls, sockListeners>>
  /\ UNCHANGED notPair

NextPair ==
  \/ \E c \in Calls, resp \in PairResponses : PairBegin(c, resp)
  \/ \E s \in SocketIds : PairConnect(s)
  \/ \E s \in SocketIds : PairLost(s)
  \/ \E s \in SocketIds, data \in PairEvents : PairProgress(s, data)
  \/ \E s \in SocketIds, data \in PairEvents, throwing \in SUBSET Calls :
       PairFatalError(s, data, throwing)
  \/ \E s \in SocketIds, data \in PairEvents : PairSuccess(s, data)

SpecPair == InitPair /\ [][NextPair]_vars

\* ------------------------------------------ toNearestSerializableObject

\* A call with any value: a primitive, undefined, a function, or the object
\* #1 of any class, whose slots hold any values, references to itself and
\* to the object #2 included.
InitSerialize ==
  /\ serValue \in ThrownValues
  /\ heap \in [Refs -> [class : Classes, x : SlotValues, y : SlotValues]]
  /\ heap["#2"].class \in {"Object", "Array"}
  /\ serValue \notin Refs => heap = EmptyHeap
  /\ serPc = "called"
  /\ serialized = NotSerialized
  /\ thrown = NA
  /\ boundary = NA
  /\ catchPc = "none"
  /\ rethrown = NothingThrown
  /\ liveCall = NoCall
  /\ handlers = {}
  /\ endpointValid = TRUE
  /\ LiveAtRest
  /\ StreamAtRest
  /\ RouteAtRest
  /\ PairAtRest
  /\ UploadAtRest
  /\ ProgressAtRest

\* The call throws at once.
SerializeThrows ==
  /\ serPc = "called"
  /\ toNearestSerializableObject(heap, serValue).threw
  /\ serPc' = "done"
  /\ serialized' = toNearestSerializableObject(heap, serValue)
  /\ UNCHANGED <<serValue, heap>>
  /\ UNCHANGED notSerialize

\* The call returns recursion(value).
SerializeReturns ==
  /\ serPc = "called"
  /\ ~toNearestSerializableObject(heap, serValue).threw
  /\ serPc' = "done"
  /\ serialized' = toNearestSerializableObject(heap, serValue)
  /\ UNCHANGED <<serValue, heap>>
  /\ UNCHANGED notSerialize

NextSerialize == SerializeThrows \/ SerializeReturns

SpecSerialize == InitSerialize /\ [][NextSerialize]_vars

\* ---------------------------------------------------- the catch blocks

Boundaries == {"callRoute", "callLiveRoute"}

\* A value was thrown inside the try block of one of the two functions: a
\* primitive, undefined, a function, or the object #1 of any class, whose
\* slots hold any values, references to itself and to #2 included.
InitClassify ==
  /\ thrown \in ThrownValues
  /\ heap \in [Refs -> [class : Classes, x : SlotValues, y : SlotValues]]
  /\ heap["#2"].class \in {"Object", "Array"}
  /\ thrown \notin Refs => heap = EmptyHeap
  /\ boundary \in Boundaries
  /\ catchPc = "try"
  /\ rethrown = NothingThrown
  /\ liveCall = NoCall
  /\ handlers = {}
  /\ endpointValid = TRUE
  /\ LiveAtRest
  /\ StreamAtRest
  /\ RouteAtRest
  /\ PairAtRest
  /\ SerializeAtRest
  /\ UploadAtRest
  /\ ProgressAtRest

\* catch (e) { ... } of callRoute
ClassifyRoute ==
  /\ catchPc = "try"
  /\ boundary = "callRoute"
  /\ catchPc' = "caught"
  /\ rethrown' = Classify(heap, thrown)
  /\ UNCHANGED <<heap, thrown, boundary>>
  /\ UNCHANGED notClassify

\* catch (e) { ... } of callLiveRoute
ClassifyLive ==
  /\ catchPc = "try"
  /\ boundary = "callLiveRoute"
  /\ catchPc' = "caught"
  /\ rethrown' = Classify(heap, thrown)
  /\ UNCHANGED <<heap, thrown, boundary>>
  /\ UNCHANGED notClassify

NextClassify == ClassifyRoute \/ ClassifyLive

SpecClassify == InitClassify /\ [][NextClassify]_vars

\* ---------------------------------------------------------- FileStreamer

Bytes == {0, 1}

\* The byte sources of length n.
SourcesOfLength(n) == [1..n -> Bytes]

ChunkSizes == 1..MaxChunk

\* new FileStreamer(file, chunkSize, onChunk), for any file up to MaxLen
\* bytes and any positive chunkSize.
InitStream ==
  /\ source \in UNION {SourcesOfLength(n) : n \in 0..MaxLen}
  /\ chunkSize \in ChunkSizes
  /\ readPos = 0
  /\ buffer = <<>>
  /\ loadedPointer = 0
  /\ finishedPointer = 0
  /\ runPc = "new"
  /\ chunks = <<>>
  /\ reads = 0
  /\ emptyReads = 0
  /\ runError = NA
  /\ resolved = 0
  /\ rejection = NA
  /\ liveCall = NoCall
  /\ handlers = {}
  /\ endpointValid = TRUE
  /\ LiveAtRest
  /\ RouteAtRest
  /\ ClassifyAtRest
  /\ SerializeAtRest
  /\ UploadAtRest
  /\ ProgressAtRest
  /\ PairAtRest

\* Mutant: onChunk gets the number of the chunk instead of its byte offset.
LoopHeadChunkIndex(buf, fin) ==
  IF Len(buf) >= chunkSize
    THEN /\ chunks' = Append(chunks, [bytes |-> SubSeq(buf, 1, chunkSize),
                                     offset |-> Len(chunks)])
         /\ runPc' = "chunk"
         /\ reads' = reads
    ELSE /\ chunks' = chunks
         /\ runPc' = "read"
         /\ reads' = reads + 1

\* Mutant: onChunk is not awaited before the next read is requested.
LoopHeadReadsAhead(buf, fin) ==
  IF Len(buf) >= chunkSize
    THEN /\ chunks' = Append(chunks, [bytes |-> SubSeq(buf, 1, chunkSize), offset |-> fin])
         /\ runPc' = "chunk"
         /\ reads' = reads + 1
    ELSE /\ chunks' = chunks
         /\ runPc' = "read"
         /\ reads' = reads + 1

\* Mutant: the flush loop tests buffer.length > chunkSize.
LoopHeadStrict(buf, fin) ==
  IF Len(buf) > chunkSize
    THEN /\ chunks' = Append(chunks, [bytes |-> SubSeq(buf, 1, chunkSize), offset |-> fin])
         /\ runPc' = "chunk"
         /\ reads' = reads
    ELSE /\ chunks' = chunks
         /\ runPc' = "read"
         /\ reads' = reads + 1

\* The head of the flush loop, with buffer `buf` and finishedPointer `fin`:
\* while the buffer holds chunkSize bytes, onChunk is invoked with the first
\* chunkSize bytes and awaited; otherwise the outer loop requests a read.
LoopHead(buf, fin) ==
  IF Len(buf) >= chunkSize
    THEN /\ chunks' = Append(chunks, [bytes |-> SubSeq(buf, 1, chunkSize), offset |-> fin])
         /\ runPc' = "chunk"
         /\ reads' = reads
    ELSE /\ chunks' = chunks
         /\ runPc' = "read"
         /\ reads' = reads + 1

\* run() is called: the first reader.read() is requested.
StartRun ==
  /\ runPc = "new"
  /\ runPc' = "read"
  /\ reads' = reads + 1
  /\ UNCHANGED <<source, chunkSize, readPos, buffer, loadedPointer, finishedPointer,
                 chunks, emptyReads, runError>>
  /\ UNCHANGED <<resolved, rejection>>
  /\ UNCHANGED notStream

\* Mutant: tmp.set(value, 0) and tmp.set(this.buffer, value.length).
AbsorbInFront(buf, value) == value \o buf

\* tmp.set(this.buffer, 0); tmp.set(value, this.buffer.length)
Absorb(buf, value) == buf \o value

\* slice.length of buffer.subarray(0, chunkSize)
SliceLength == IF Len(buffer) < chunkSize THEN Len(buffer) ELSE chunkSize

\* Mutant: every read is flushed to the end, also a rest shorter than
\* chunkSize.
ReadValueFlushesRest(n) ==
  /\ runPc = "read"
  /\ n <= Len(source) - readPos
  /\ n = 0 => emptyReads < MaxEmptyReads
  /\ emptyReads' = emptyReads + (IF n = 0 THEN 1 ELSE 0)
  /\ readPos' = readPos + n
  /\ loadedPointer' = loadedPointer + n
  /\ buffer' = Absorb(buffer, SubSeq(source, readPos + 1, readPos + n))
  /\ IF Len(buffer') > 0
       THEN /\ chunks' = Append(chunks, [bytes |-> SubSeq(buffer', 1,
                                                          IF Len(buffer') < chunkSize
                                                            THEN Len(buffer')
                                                            ELSE chunkSize),
                                        offset |-> finishedPointer])
            /\ runPc' = "chunk"
            /\ reads' = reads
       ELSE /\ chunks' = chunks
            /\ runPc' = "read"
            /\ reads' = reads + 1
  /\ UNCHANGED <<source, chunkSize, finishedPointer, runError>>
  /\ UNCHANGED <<resolved, rejection>>
  /\ UNCHANGED notStream

\* The read returns the next n bytes of the source (n = 0: an empty array):
\* they are appended to the buffer, then the flush loop starts.
ReadValue(n) ==
  /\ runPc = "read"
  /\ n <= Len(source) - readPos
  /\ n = 0 => emptyReads < MaxEmptyReads
  /\ emptyReads' = emptyReads + (IF n = 0 THEN 1 ELSE 0)
  /\ readPos' = readPos + n
  /\ loadedPointer' = loadedPointer + n
  /\ buffer' = Absorb(buffer, SubSeq(source, readPos + 1, readPos + n))
  /\ LoopHead(buffer', finishedPointer)
  /\ UNCHANGED <<source, chunkSize, finishedPointer, runError>>
  /\ UNCHANGED <<resolved, rejection>>
  /\ UNCHANGED notStream

\* The read returns done: false without a value: the loop continues with
\* the next read.
ReadNoValue ==
  /\ runPc = "read"
  /\ emptyReads < MaxEmptyReads
  /\ emptyReads' = emptyReads + 1
  /\ reads' = reads + 1
  /\ UNCHANGED <<source, chunkSize, readPos, buffer, loadedPointer, finishedPointer,
                 runPc, chunks, runError>>
  /\ UNCHANGED <<resolved, rejection>>
  /\ UNCHANGED notStream

\* Mutant: the loop ends without flushing the bytes that remain.
ReadDoneDropsRest ==
  /\ runPc = "read"
  /\ readPos = Len(source)
  /\ runPc' = "done"
  /\ UNCHANGED <<source, chunkSize, readPos, buffer, loadedPointer, finishedPointer,
                 chunks, reads, emptyReads, runError>>
  /\ UNCHANGED <<resolved, rejection>>
  /\ UNCHANGED notStream

\* Mutant: the final flush without its buffer.length > 0 test.
ReadDoneAlwaysFlushes ==
  /\ runPc = "read"
  /\ readPos = Len(source)
  /\ chunks' = Append(chunks, [bytes |-> buffer, offset |-> finishedPointer])
  /\ runPc' = "final"
  /\ UNCHANGED <<source, chunkSize, readPos, buffer, loadedPointer, finishedPointer,
                 reads, emptyReads, runError>>
  /\ UNCHANGED <<resolved, rejection>>
  /\ UNCHANGED notStream

\* The read returns done: the bytes that remain, if any, go to onChunk as
\* the final chunk.
ReadDone ==
  /\ runPc = "read"
  /\ readPos = Len(source)
  /\ IF Len(buffer) > 0
       THEN /\ chunks' = Append(chunks, [bytes |-> buffer, offset |-> finishedPointer])
            /\ runPc' = "final"
       ELSE /\ chunks' = chunks
            /\ runPc' = "done"
  /\ UNCHANGED <<source, chunkSize, readPos, buffer, loadedPointer, finishedPointer,
                 reads, emptyReads, runError>>
  /\ UNCHANGED <<resolved, rejection>>
  /\ UNCHANGED notStream

\* The read rejects (the file cannot be read): run() rejects.
ReadRejected ==
  /\ runPc = "read"
  /\ runPc' = "failed"
  /\ runError' = "read failed"
  /\ UNCHANGED <<source, chunkSize, readPos, buffer, loadedPointer, finishedPointer,
                 chunks, reads, emptyReads>>
  /\ UNCHANGED <<resolved, rejection>>
  /\ UNCHANGED notStream

\* Mutant: the flush loop advances finishedPointer but keeps the buffer.
ChunkResolvedNoShrink ==
  /\ runPc = "chunk"
  /\ finishedPointer' = finishedPointer + SliceLength
  /\ buffer' = buffer
  /\ LoopHead(buffer', finishedPointer')
  /\ resolved' = resolved + 1
  /\ UNCHANGED <<source, chunkSize, readPos, loadedPointer, emptyReads, runError,
                 rejection>>
  /\ UNCHANGED notStream

\* The awaited onChunk of the flush loop resolves: the slice is dropped
\* from the buffer and the loop condition is tested again.
ChunkResolved ==
  /\ runPc = "chunk"
  /\ finishedPointer' = finishedPointer + SliceLength
  /\ buffer' = SubSeq(buffer, SliceLength + 1, Len(buffer))
  /\ LoopHead(buffer', finishedPointer')
  /\ resolved' = resolved + 1
  /\ UNCHANGED <<source, chunkSize, readPos, loadedPointer, emptyReads, runError,
                 rejection>>
  /\ UNCHANGED notStream

\* The failures an onChunk invocation may reject with.
Failures == {"write failed", "size mismatch"}

\* Mutant: the rejection of onChunk is caught and the run goes on as if the
\* invocation had resolved.
ChunkRejectionSwallowed(reason) ==
  /\ runPc \in {"chunk", "final"}
  /\ rejection' = reason
  /\ IF runPc = "chunk"
       THEN /\ finishedPointer' = finishedPointer + SliceLength
            /\ buffer' = SubSeq(buffer, SliceLength + 1, Len(buffer))
            /\ LoopHead(buffer', finishedPointer')
       ELSE /\ finishedPointer' = finishedPointer + Len(buffer)
            /\ buffer' = <<>>
            /\ runPc' = "done"
            /\ UNCHANGED <<chunks, reads>>
  /\ UNCHANGED <<source, chunkSize, readPos, loadedPointer, emptyReads, runError,
                 resolved>>
  /\ UNCHANGED notStream

\* The awaited onChunk rejects with `reason`: run() rejects with the same
\* failure.
ChunkRejected(reason) ==
  /\ runPc \in {"chunk", "final"}
  /\ rejection' = reason
  /\ runPc' = "failed"
  /\ runError' = reason
  /\ UNCHANGED <<source, chunkSize, readPos, buffer, loadedPointer, finishedPointer,
                 chunks, reads, emptyReads, resolved>>
  /\ UNCHANGED notStream

\* Mutant: the final flush leaves finishedPointer and the buffer as they are.
FinalResolvedKeepsPointer ==
  /\ runPc = "final"
  /\ runPc' = "done"
  /\ resolved' = resolved + 1
  /\ UNCHANGED <<source, chunkSize, readPos, loadedPointer, chunks, reads, emptyReads,
                 runError, rejection, finishedPointer, buffer>>
  /\ UNCHANGED notStream

\* The awaited onChunk of the final chunk resolves: run() resolves.
FinalResolved ==
  /\ runPc = "final"
  /\ finishedPointer' = finishedPointer + Len(buffer)
  /\ buffer' = <<>>
  /\ runPc' = "done"
  /\ resolved' = resolved + 1
  /\ UNCHANGED <<source, chunkSize, readPos, loadedPointer, chunks, reads, emptyReads,
                 runError, rejection>>
  /\ UNCHANGED notStream

NextStream ==
  \/ StartRun
  \/ \E n \in 0..MaxRead : ReadValue(n)
  \/ ReadNoValue
  \/ ReadDone
  \/ ReadRejected
  \/ ChunkResolved
  \/ \E reason \in Failures : ChunkRejected(reason)
  \/ FinalResolved

SpecStream == InitStream /\ [][NextStream]_vars

\* The runtime runs run(); every read returns (the stream is finite: it
\* ends with done) and every onChunk invocation settles.
SpecStreamFair ==
  /\ SpecStream
  /\ WF_vars(StartRun)
  /\ WF_vars((\E n \in 0..MaxRead : ReadValue(n)) \/ ReadNoValue \/ ReadDone)
  /\ WF_vars(ChunkResolved)
  /\ WF_vars(FinalResolved)

\* ------------------------------------------------- upload page: onSubmit

NewObjectRoute == "/files/upload/new-object"
WriteRoute == "/files/upload/write-object-bytes"
CreateRoute == "/documents/create"
PreprocessRoute == "/documents/preprocess"

ObjectIds == {"o1", "o2"}
DocumentIds == {"d1", "d2"}

\* What the server may answer to write-object-bytes: an integer, or a value
\* that is not an integer.
WriteReplies ==
  {[integer |-> TRUE, value |-> n] : n \in 0..MaxChunk}
    \cup {[integer |-> FALSE, value |-> 0]}

\* The arguments of a callRoute call of onSubmit.
ServerCall(route, object, position, data, size, document) ==
  [route |-> route, object_id |-> object, position |-> position, data |-> data,
   size |-> size, document_id |-> document]

\* What a callRoute call came back with: a string, a number (an integer or
\* not), or an exception.
ReturnedId(id) == [threw |-> FALSE, id |-> id, integer |-> FALSE, value |-> 0]
ReturnedNumber(reply) ==
  [threw |-> FALSE, id |-> NA, integer |-> reply.integer, value |-> reply.value]
CallThrew == [threw |-> TRUE, id |-> NA, integer |-> FALSE, value |-> 0]

StringMessage(text) == [kind |-> "string", text |-> text, current |-> 0]
ProgressBar(title, current) == [kind |-> "progressBar", text |-> title, current |-> current]

\* The chunk the onChunk invocation in flight was called with.
Blob == chunks[Len(chunks)]

\* The form is submitted for a file of up to MaxLen bytes.
InitUpload ==
  /\ source \in UNION {SourcesOfLength(n) : n \in 0..MaxLen}
  /\ chunkSize \in ChunkSizes
  /\ readPos = 0
  /\ buffer = <<>>
  /\ loadedPointer = 0
  /\ finishedPointer = 0
  /\ runPc = "new"
  /\ chunks = <<>>
  /\ reads = 0
  /\ emptyReads = 0
  /\ runError = NA
  /\ resolved = 0
  /\ rejection = NA
  /\ liveCall = NoCall
  /\ handlers = {}
  /\ endpointValid = TRUE
  /\ LiveAtRest
  /\ RouteAtRest
  /\ ClassifyAtRest
  /\ SerializeAtRest
  /\ PairAtRest
  /\ UploadAtRest
  /\ ProgressAtRest

\* catch (err) of onSubmit: one message, and err is thrown on.
UploadCatch(err) ==
  /\ messages' = Append(messages, StringMessage("Upload failed."))
  /\ uploadError' = err
  /\ upPc' = "failed"

\* onSubmit up to its first await: two messages, and the new-object call.
Submit ==
  /\ upPc = "none"
  /\ messages' = messages \o <<StringMessage("Uploading..."),
                               StringMessage("Creating object...")>>
  /\ serverCalls' = Append(serverCalls,
                           ServerCall(NewObjectRoute, NA, NA, NA,
                                      Len(source), NA))
  /\ upPc' = "newObject"
  /\ UNCHANGED <<replies, objectId, documentId, started, writePc, writeError,
                 uploadError>>
  /\ UNCHANGED streamVars
  /\ UNCHANGED notUpload

\* new-object returns `id`: a message, the progress bar, and run() of a new
\* FileStreamer is called, which requests the first read.
NewObjectReturns(id) ==
  /\ upPc = "newObject"
  /\ replies' = Append(replies, ReturnedId(id))
  /\ objectId' = id
  /\ messages' = messages \o <<StringMessage("Created object with id " \o id),
                               ProgressBar("Uploading", 0)>>
  /\ upPc' = "streaming"
  /\ runPc' = "read"
  /\ reads' = reads + 1
  /\ UNCHANGED <<serverCalls, documentId, started, writePc, writeError, uploadError>>
  /\ UNCHANGED <<source, chunkSize, readPos, buffer, loadedPointer, finishedPointer,
                 chunks, emptyReads, runError, resolved, rejection>>
  /\ UNCHANGED notUpload

\* new-object throws.
NewObjectThrows ==
  /\ upPc = "newObject"
  /\ replies' = Append(replies, CallThrew)
  /\ UploadCatch("new-object failed")
  /\ UNCHANGED <<serverCalls, objectId, documentId, started, writePc, writeError>>
  /\ UNCHANGED streamVars
  /\ UNCHANGED notUpload

\* onChunk(blob, offset) up to its second await: the blob is encoded and the
\* write-object-bytes call is issued.
OnChunkCall ==
  /\ runPc \in {"chunk", "final"}
  /\ started < Len(chunks)
  /\ started' = started + 1
  /\ serverCalls' = Append(serverCalls,
                           ServerCall(WriteRoute, objectId,
                                      Blob.offset, Blob.bytes, Len(Blob.bytes), NA))
  /\ writePc' = "call"
  /\ UNCHANGED <<upPc, replies, objectId, documentId, writeError, messages, uploadError>>
  /\ UNCHANGED streamVars
  /\ UNCHANGED notUpload

\* blobToBase64 rejects: onChunk rejects before any call.
OnChunkEncodeFails ==
  /\ runPc \in {"chunk", "final"}
  /\ started < Len(chunks)
  /\ started' = started + 1
  /\ writePc' = "rejected"
  /\ writeError' = "encode failed"
  /\ UNCHANGED <<upPc, serverCalls, replies, objectId, documentId, messages, uploadError>>
  /\ UNCHANGED streamVars
  /\ UNCHANGED notUpload

\* updateMessageById(progressBarId, ...): the bar is the fourth message.
UpdateBar(msgs, current) == [msgs EXCEPT ![4] = ProgressBar("Uploading", current)]

\* Mutant: the reply of the server is not looked at.
WriteReturnsUnchecked(reply) ==
  /\ writePc = "call"
  /\ replies' = Append(replies, ReturnedNumber(reply))
  /\ writePc' = "resolved"
  /\ messages' = UpdateBar(messages, Blob.offset + Len(Blob.bytes))
  /\ UNCHANGED writeError
  /\ UNCHANGED <<upPc, serverCalls, objectId, documentId, started, uploadError>>
  /\ UNCHANGED streamVars
  /\ UNCHANGED notUpload

\* write-object-bytes returns `reply`: onChunk rejects unless it is an
\* integer equal to blob.size, and moves the progress bar otherwise.
WriteReturns(reply) ==
  /\ writePc = "call"
  /\ replies' = Append(replies, ReturnedNumber(reply))
  /\ IF ~reply.integer
       THEN /\ writePc' = "rejected"
            /\ writeError' = "invalid response"
            /\ UNCHANGED messages
       ELSE IF reply.value # Len(Blob.bytes)
         THEN /\ writePc' = "rejected"
              /\ writeError' = "size mismatch"
              /\ UNCHANGED messages
         ELSE /\ writePc' = "resolved"
              /\ messages' = UpdateBar(messages, Blob.offset + Len(Blob.bytes))
              /\ UNCHANGED writeError
  /\ UNCHANGED <<upPc, serverCalls, objectId, documentId, started, uploadError>>
  /\ UNCHANGED streamVars
  /\ UNCHANGED notUpload

\* write-object-bytes throws: onChunk rejects.
WriteThrows ==
  /\ writePc = "call"
  /\ replies' = Append(replies, CallThrew)
  /\ writePc' = "rejected"
  /\ writeError' = "write failed"
  /\ UNCHANGED <<upPc, serverCalls, objectId, documentId, started, messages, uploadError>>
  /\ UNCHANGED streamVars
  /\ UNCHANGED notUpload

\* The onChunk invocation in flight has resolved, has rejected.
OnChunkResolved == started = Len(chunks) /\ writePc = "resolved"
OnChunkRejected == started = Len(chunks) /\ writePc = "rejected"

\* Mutant: create is left out.
RunResolvedSkipsCreate ==
  /\ upPc = "streaming"
  /\ runPc = "done"
  /\ messages' = messages \o
       <<StringMessage("Successfully uploaded file to object " \o objectId),
         StringMessage("Creating document metadata...")>>
  /\ serverCalls' = Append(serverCalls,
                           ServerCall(PreprocessRoute, NA, NA, NA, NA, documentId))
  /\ upPc' = "preprocess"
  /\ UNCHANGED <<replies, objectId, documentId, started, writePc, writeError, uploadError>>
  /\ UNCHANGED streamVars
  /\ UNCHANGED notUpload

\* run() resolves: two messages, and the create call.
RunResolved ==
  /\ upPc = "streaming"
  /\ runPc = "done"
  /\ messages' = messages \o
       <<StringMessage("Successfully uploaded file to object " \o objectId),
         StringMessage("Creating document metadata...")>>
  /\ serverCalls' = Append(serverCalls,
                           ServerCall(CreateRoute, objectId, NA, NA, NA, NA))
  /\ upPc' = "create"
  /\ UNCHANGED <<replies, objectId, documentId, started, writePc, writeError, uploadError>>
  /\ UNCHANGED streamVars
  /\ UNCHANGED notUpload

\* run() rejects.
RunRejected ==
  /\ upPc = "streaming"
  /\ runPc = "failed"
  /\ UploadCatch(runError)
  /\ UNCHANGED <<serverCalls, replies, objectId, documentId, started, writePc, writeError>>
  /\ UNCHANGED streamVars
  /\ UNCHANGED notUpload

\* create returns `id`: two messages, and the preprocess call.
CreateReturns(id) ==
  /\ upPc = "create"
  /\ replies' = Append(replies, ReturnedId(id))
  /\ documentId' = id
  /\ messages' = messages \o <<StringMessage("Created document with id " \o id),
                               StringMessage("Preprocessing document...")>>
  /\ serverCalls' = Append(serverCalls,
                           ServerCall(PreprocessRoute, NA, NA, NA, NA, id))
  /\ upPc' = "preprocess"
  /\ UNCHANGED <<objectId, started, writePc, writeError, uploadError>>
  /\ UNCHANGED streamVars
  /\ UNCHANGED notUpload

\* create throws.
CreateThrows ==
  /\ upPc = "create"
  /\ replies' = Append(replies, CallThrew)
  /\ UploadCatch("create failed")
  /\ UNCHANGED <<serverCalls, objectId, documentId, started, writePc, writeError>>
  /\ UNCHANGED streamVars
  /\ UNCHANGED notUpload

\* preprocess returns: the last message.
PreprocessReturns ==
  /\ upPc = "preprocess"
  /\ replies' = Append(replies, ReturnedId("preprocessed"))
  /\ messages' = Append(messages, StringMessage("Preprocessing complete."))
  /\ upPc' = "done"
  /\ UNCHANGED <<serverCalls, objectId, documentId, started, writePc, writeError,
                 uploadError>>
  /\ UNCHANGED streamVars
  /\ UNCHANGED notUpload

\* preprocess throws.
PreprocessThrows ==
  /\ upPc = "preprocess"
  /\ replies' = Append(replies, CallThrew)
  /\ UploadCatch("preprocess failed")
  /\ UNCHANGED <<serverCalls, objectId, documentId, started, writePc, writeError>>
  /\ UNCHANGED streamVars
  /\ UNCHANGED notUpload

\* onSubmit, with the FileStreamer it runs: the streamer's awaited onChunk
\* settles as the onChunk of onSubmit does.
NextUpload ==
  \/ Submit
  \/ \E id \in ObjectIds : NewObjectReturns(id)
  \/ NewObjectThrows
  \/ \E n \in 0..MaxRead : ReadValue(n)
  \/ ReadNoValue
  \/ ReadDone
  \/ ReadRejected
  \/ OnChunkCall
  \/ OnChunkEncodeFails
  \/ \E reply \in WriteReplies : WriteReturns(reply)
  \/ WriteThrows
  \/ OnChunkResolved /\ ChunkResolved
  \/ OnChunkResolved /\ FinalResolved
  \/ OnChunkRejected /\ ChunkRejected(writeError)
  \/ RunResolved
  \/ RunRejected
  \/ \E id \in DocumentIds : CreateReturns(id)
  \/ CreateThrows
  \/ PreprocessReturns
  \/ PreprocessThrows

SpecUpload == InitUpload /\ [][NextUpload]_vars

\* ------------------------------------- ask page: useLiveProgressViewer

Titles == {"embed", "search"}

\* The `progress` events of the task: name is optional.
ProgressResponses == [name : Titles \cup {NA}, current : 1..2, total : {2}]

\* A message of the Map, under its key.
TextMessage(id, text) ==
  [id |-> id, kind |-> "string", title |-> text, current |-> 0, max |-> 0]
BarMessage(id, title, current, max) ==
  [id |-> id, kind |-> "progressBar", title |-> title, current |-> current, max |-> max]

\* next.set(id, message) on a copy of the Map: an existing key keeps its
\* place, a new key goes to the end.
MapSet(map, message) ==
  IF \E i \in DOMAIN map : map[i].id = message.id
    THEN [i \in DOMAIN map |-> IF map[i].id = message.id THEN message ELSE map[i]]
    ELSE Append(map, message)

\* The positions of the bars with a title.
BarsOf(map, title) ==
  {i \in DOMAIN map : map[i].kind = "progressBar" /\ map[i].title = title}

\* The loop over progressMessages.entries(): the id of the first bar with
\* the title, 0 (null) when there is none.
TargetId(map, title) ==
  IF BarsOf(map, title) = {}
    THEN 0
    ELSE map[CHOOSE i \in BarsOf(map, title) : \A j \in BarsOf(map, title) : i <= j].id

\* upsertProgressBarByTitle of a render that has `seen` as progressMessages.
upsertProgressBarByTitle(seen, title, current, max) ==
  IF TargetId(seen, title) # 0
    THEN /\ progressMessages' =
              MapSet(progressMessages, BarMessage(TargetId(seen, title), title, current, max))
         /\ returnedId' = TargetId(seen, title)
         /\ uuids' = uuids
    ELSE /\ progressMessages' =
              MapSet(progressMessages, BarMessage(uuids + 1, title, current, max))
         /\ returnedId' = uuids + 1
         /\ uuids' = uuids + 1

\* addProgressMessage({kind: "string", text})
addProgressMessage(text) ==
  /\ progressMessages' = MapSet(progressMessages, TextMessage(uuids + 1, text))
  /\ uuids' = uuids + 1

\* The ask page is mounted, with no message.
InitProgress ==
  /\ ProgressAtRest
  /\ liveCall = NoCall
  /\ handlers = {}
  /\ endpointValid = TRUE
  /\ LiveAtRest
  /\ StreamAtRest
  /\ RouteAtRest
  /\ ClassifyAtRest
  /\ SerializeAtRest
  /\ PairAtRest
  /\ UploadAtRest

\* The component renders again with the state as it is.
Render ==
  /\ renderedMessages # progressMessages
  /\ renderedMessages' = progressMessages
  /\ UNCHANGED <<progressMessages, closureMessages, askPc, uuids, returnedId>>
  /\ UNCHANGED notProgress

\* The form is submitted: onSubmit of the latest render runs up to the await
\* of callLiveRoute; the handlers it passes are closures of that render.
AskSubmit ==
  /\ askPc = "none"
  /\ closureMessages' = renderedMessages
  /\ addProgressMessage("Asking AI...")
  /\ askPc' = "asking"
  /\ UNCHANGED <<renderedMessages, returnedId>>
  /\ UNCHANGED notProgress

\* A `progress` event: onProgress upserts the bar named by the event, when
\* the event has a name.
AskOnProgress(ev) ==
  /\ askPc = "asking"
  /\ uuids < MaxUuids
  /\ IF ev.name # NA
       THEN upsertProgressBarByTitle(closureMessages, ev.name, ev.current, ev.total)
       ELSE UNCHANGED <<progressMessages, returnedId, uuids>>
  /\ UNCHANGED <<renderedMessages, closureMessages, askPc>>
  /\ UNCHANGED notProgress

\* An `update` event: onUpdate adds its message.
AskOnUpdate ==
  /\ askPc = "asking"
  /\ uuids < MaxUuids
  /\ addProgressMessage("update")
  /\ UNCHANGED <<renderedMessages, closureMessages, askPc, returnedId>>
  /\ UNCHANGED notProgress

\* callLiveRoute resolves or rejects: the last message of onSubmit.
AskSettled(text) ==
  /\ askPc = "asking"
  /\ addProgressMessage(text)
  /\ askPc' = "settled"
  /\ UNCHANGED <<renderedMessages, closureMessages, returnedId>>
  /\ UNCHANGED notProgress

NextProgress ==
  \/ Render
  \/ AskSubmit
  \/ \E ev \in ProgressResponses : AskOnProgress(ev)
  \/ AskOnUpdate
  \/ \E text \in {"Done thinking.", "Failed to answer your question."} : AskSettled(text)

SpecProgress == InitProgress /\ [][NextProgress]_vars

\* ------------------------------------------------ callLiveRoute: claims

Last(s) == s[Len(s)]

\* The handler invocations that a sequence of delivered events calls for:
\* one per event whose kind is in `kinds`, in arrival order.
InvocationsFor(events, kinds) ==
  LET f == SelectSeq(events, LAMBDA e : e.kind \in kinds)
  IN [i \in 1..Len(f) |-> [handler |-> HandlerName(f[i].kind), arg |-> f[i]]]

\* The place of the first success or fatal_error event delivered, 0 if none.
FirstTerminal ==
  LET T == {i \in 1..Len(inbound) : inbound[i].kind \in TerminalKinds}
  IN IF T = {} THEN 0 ELSE CHOOSE i \in T : \A j \in T : i <= j

\* C1: the call settles exactly once, on the first success or fatal_error
\* event, and no handler is invoked for an event that follows that first
\* terminal event.
C1_SettlesOnceOnFirstTerminal ==
  /\ settleCalls <= 1
  /\ FirstTerminal = 0 => settleCalls = 0
  /\ FirstTerminal > 0 =>
       /\ settleCalls = 1
       /\ outcome.kind # "pending"
       /\ calls = InvocationsFor(SubSeq(inbound, 1, FirstTerminal), handlers)

\* C2: the invocations of the non-terminal handlers are the delivered
\* non-terminal events whose kind has a handler, one invocation of the
\* event's own handler per event, in arrival order; and a call that returned
\* returned the result of the success event delivered last.
C2_HandlersFollowArrivalOrder ==
  /\ SelectSeq(calls, LAMBDA c : c.handler # "onFatalError")
       = InvocationsFor(inbound, handlers \ {"fatal_error"})
  /\ outcome.kind = "returned" =>
       /\ inbound # <<>>
       /\ Last(inbound).kind = "success"
       /\ outcome.value = Last(inbound).data

\* The scenario progress, progress, update, success with onProgress and
\* onUpdate registered: onProgress twice, onUpdate once, then the result.
C2_Witness ==
  /\ {"progress", "update"} \subseteq handlers
  /\ Len(inbound) = 4
  /\ [i \in 1..4 |-> inbound[i].kind] = <<"progress", "progress", "update", "success">>
  /\ inbound[1] # inbound[2]
  /\ [i \in 1..Len(calls) |-> calls[i].handler] = <<"onProgress", "onProgress", "onUpdate">>
  /\ outcome = Returned(inbound[4].data)

\* C3: once a success event was delivered, the socket is disconnected and
\* the call has returned exactly the event's result.
C3_SuccessResolvesWithResult ==
  (inbound # <<>> /\ Last(inbound).kind = "success") =>
    /\ socket = "disconnected"
    /\ outcome = Returned(Last(inbound).data)

C3_Witness ==
  /\ Len(inbound) >= 2
  /\ Last(inbound).kind = "success"
  /\ Last(inbound).data = UNDEF
  /\ outcome = Returned(UNDEF)
  /\ socket = "disconnected"

\* The cause an error carries when it is the cause of a fatal_error event.
EventCause(c) ==
  IF c = UNDEF THEN NoCause
  ELSE [kind |-> "event", status |-> 0, data |-> c, body |-> NA, message |-> NA]

\* C4: after a fatal_error event (whose handler, if any, returned), the
\* socket is disconnected and the error thrown to the caller carries the
\* event's message as its message and the event's cause as its cause.
C4_FatalErrorCarriesMessageAndCause ==
  (inbound # <<>> /\ Last(inbound).kind = "fatal_error" /\ ~uncaught) =>
    /\ socket = "disconnected"
    /\ outcome.kind = "threw"
    /\ outcome.error.message = Last(inbound).message
    /\ outcome.error.cause = EventCause(Last(inbound).cause)

\* C5: when the first terminal event delivered is fatal_error the call never
\* returns a result, and a call that has thrown has no connected socket.
C5_FatalNeverResolves ==
  /\ (FirstTerminal > 0 /\ inbound[FirstTerminal].kind = "fatal_error") =>
       outcome.kind # "returned"
  /\ outcome.kind = "threw" => socket \in {"none", "disconnected"}

\* The begin request failed: transport failure, non-success status, or a
\* success status with a body that is not JSON.
BeginFailed(resp) ==
  \/ resp.failed
  \/ ~Ok(resp.status)
  \/ ~safeParse(resp.body).parsable

\* C6: when the begin request fails, the call throws the error callRoute
\* throws for the same response, no socket is created, no join is emitted
\* and no handler is invoked.
C6_BeginFailureStopsAtOpening ==
  (livePc \notin {"Idle", "Opening"} /\ BeginFailed(beginResp)) =>
    /\ livePc = "Settled"
    /\ outcome.kind = "threw"
    /\ outcome = callRoute(beginResp)
    /\ socket = "none"
    /\ joins = <<>>
    /\ inbound = <<>>
    /\ calls = <<>>

C6_Witness ==
  /\ livePc = "Settled"
  /\ ~beginResp.failed
  /\ beginResp.status = 404
  /\ outcome.kind = "threw"
  /\ outcome.error.cause.status = 404
  /\ handlers = HandlerKinds

\* The step delivers an event of one of the kinds.
Delivers(kinds) ==
  /\ Len(inbound') = Len(inbound) + 1
  /\ Last(inbound').kind \in kinds

\* C7: an error or warning event leaves the call pending and the socket
\* connected; the call settles, and the socket is disconnected, only in a
\* step that delivers success or fatal_error.
C7_ErrorAndWarningAreNotTerminal ==
  [][/\ Delivers({"error", "warning"}) =>
          /\ outcome' = Pending
          /\ livePc' = "Streaming"
          /\ socket' = "connected"
          /\ settleCalls' = settleCalls
     /\ (livePc = "Streaming" /\ (outcome' # outcome \/ socket' = "disconnected")) =>
          Delivers(TerminalKinds)]_vars

C7_Witness ==
  /\ Len(inbound) = 3
  /\ \A i \in 1..3 : inbound[i].kind \in {"error", "warning"}
  /\ \E i \in 1..3 : inbound[i].kind = "error"
  /\ \E i \in 1..3 : inbound[i].kind = "warning"
  /\ {"error", "warning"} \subseteq handlers
  /\ Len(calls) = 3
  /\ outcome = Pending
  /\ socket = "connected"

\* C8: an event whose kind has no handler invokes nothing and raises
\* nothing; a non-terminal one changes nothing else, success still returns
\* the result and fatal_error still throws, both with the socket
\* disconnected.
C8_MissingHandlersAreSkipped ==
  [][(Delivers({"success"} \cup HandlerKinds) /\ Last(inbound').kind \notin handlers) =>
       /\ calls' = calls
       /\ uncaught' = FALSE
       /\ Last(inbound').kind \notin TerminalKinds =>
            UNCHANGED <<outcome, livePc, socket, settleCalls, joins>>
       /\ Last(inbound').kind = "success" =>
            /\ outcome' = Returned(Last(inbound').data)
            /\ socket' = "disconnected"
       /\ Last(inbound').kind = "fatal_error" =>
            /\ outcome'.kind = "threw"
            /\ outcome'.error.type = "RPCerror"
            /\ livePc' = "Settled"
            /\ socket' = "disconnected"]_vars

C8_Witness ==
  /\ handlers = {}
  /\ Len(inbound) = 3
  /\ \A i \in 1..2 : inbound[i].kind \notin TerminalKinds
  /\ inbound[3].kind = "fatal_error"
  /\ calls = <<>>
  /\ outcome.kind = "threw"
  /\ socket = "disconnected"

\* The states of the live task channel: Idle 0, Opening 1 (the begin request
\* or the connection is being made), Joined 2 (join emitted), Streaming 3
\* (an event was accepted), Terminated 4.
Phase ==
  CASE livePc = "Idle" -> 0
    [] livePc = "Opening" -> 1
    [] livePc = "Settled" -> 4
    [] OTHER -> IF joins = <<>> THEN 1 ELSE IF inbound = <<>> THEN 2 ELSE 3

\* C9: the call moves through Idle, Opening, Joined, Streaming, Terminated
\* in that order only, Terminated is absorbing, and a join is emitted only
\* after the begin response yielded a task_id and the socket connected, and
\* it carries the task_id of the begin response.
C9_OrderedPhasesAndJoin ==
  [][/\ Phase' >= Phase
     /\ livePc = "Settled" => UNCHANGED <<livePc, outcome, joins, calls, socket>>
     /\ joins' # joins =>
          /\ livePc = "Streaming"
          /\ Ok(beginResp.status)
          /\ socket' = "connected"
          /\ Len(joins') = Len(joins) + 1
          /\ Last(joins') # UNDEF
          /\ Last(joins') = Destructure(safeParse(beginResp.body).data).task_id]_vars

\* ------------------------------------------------- FileStreamer: claims

CeilDiv(a, b) == (a + b - 1) \div b

\* C10: a run over a source of L > 0 bytes that completes has invoked
\* onChunk ceil(L / chunkSize) times, every invocation but the last with
\* chunkSize bytes and the last with L mod chunkSize bytes (chunkSize when
\* that is 0), however the reader split the source into reads.
C10_ChunkCountAndSizes ==
  (runPc = "done" /\ Len(source) > 0) =>
    /\ Len(chunks) = CeilDiv(Len(source), chunkSize)
    /\ \A i \in 1..(Len(chunks) - 1) : Len(chunks[i].bytes) = chunkSize
    /\ Len(Last(chunks).bytes) =
         (IF Len(source) % chunkSize = 0 THEN chunkSize ELSE Len(source) % chunkSize)

C10_Witness ==
  /\ runPc = "done"
  /\ Len(source) = 5
  /\ chunkSize = 2
  /\ Len(chunks) = 3
  /\ Len(chunks[3].bytes) = 1
  /\ reads = 4
  /\ emptyReads = 1

\* C11: the offsets passed to onChunk start at 0, increase strictly, and
\* each chunk's offset plus its length is the next chunk's offset.
C11_OffsetsContiguous ==
  /\ chunks # <<>> => chunks[1].offset = 0
  /\ \A i \in 1..(Len(chunks) - 1) :
       /\ chunks[i + 1].offset > chunks[i].offset
       /\ chunks[i + 1].offset = chunks[i].offset + Len(chunks[i].bytes)

\* Two full chunks and a shorter last one, as for 40,000 bytes in chunks of
\* 16,384: here 5 bytes in chunks of 2, offsets 0, 2, 4 and sizes 2, 2, 1.
C11_Witness ==
  /\ runPc = "done"
  /\ Len(source) = 5
  /\ chunkSize = 2
  /\ [i \in 1..Len(chunks) |-> chunks[i].offset] = <<0, 2, 4>>
  /\ [i \in 1..Len(chunks) |-> Len(chunks[i].bytes)] = <<2, 2, 1>>

RECURSIVE Concat(_)
\* The bytes of a sequence of chunks, one after the other.
Concat(cs) == IF cs = <<>> THEN <<>> ELSE cs[1].bytes \o Concat(Tail(cs))

\* C12: when run() has resolved, the chunks passed to onChunk, joined in
\* invocation order, are the source; each chunk holds the source bytes at
\* its offset; and every onChunk invocation has resolved.
C12_ChunksCoverSource ==
  runPc = "done" =>
    /\ Concat(chunks) = source
    /\ \A i \in 1..Len(chunks) :
         chunks[i].bytes =
           SubSeq(source, chunks[i].offset + 1, chunks[i].offset + Len(chunks[i].bytes))
    /\ resolved = Len(chunks)

C12_Witness ==
  /\ runPc = "done"
  /\ source = <<0, 1, 1, 0, 1>>
  /\ chunkSize = 2
  /\ Len(chunks) = 3
  /\ resolved = 3
  /\ reads >= 3

\* C13: onChunk never gets a chunk of zero bytes: a run over an empty source
\* completes without any onChunk invocation, and a read that returns no
\* bytes produces no chunk.
C13_NoEmptyChunk ==
  /\ [](/\ \A i \in 1..Len(chunks) : Len(chunks[i].bytes) > 0
        /\ Len(source) = 0 => (chunks = <<>> /\ runPc \in {"new", "read", "done", "failed"}))
  /\ [][emptyReads' # emptyReads => chunks' = chunks]_vars

C13_Witness ==
  /\ runPc = "done"
  /\ Len(source) = 0
  /\ emptyReads = 1
  /\ chunks = <<>>

\* C14: when onChunk rejects on the k-th chunk, run() rejects with that
\* failure, and afterwards there is no onChunk invocation and no read.
C14_RejectionStopsTheRun ==
  /\ [](rejection # NA =>
          /\ runPc = "failed"
          /\ runError = rejection
          /\ Len(chunks) = resolved + 1)
  /\ [][rejection' # NA => (chunks' = chunks /\ reads' = reads)]_vars

C14_Witness ==
  /\ rejection = "size mismatch"
  /\ runError = "size mismatch"
  /\ runPc = "failed"
  /\ Len(chunks) = 2
  /\ Len(buffer) > chunkSize
  /\ readPos < Len(source)

\* C15: at most one onChunk invocation is in flight, and a read is requested
\* only when none is and the buffer holds less than chunkSize bytes.
C15_SerialAwait ==
  /\ [](/\ Len(chunks) - resolved \in {0, 1}
        /\ runPc \in {"chunk", "final"} <=> (Len(chunks) - resolved = 1 /\ rejection = NA)
        /\ runPc = "read" => Len(chunks) = resolved)
  /\ [][reads' # reads =>
          /\ reads' = reads + 1
          /\ Len(chunks') = resolved'
          /\ Len(buffer') < chunkSize]_vars

C15_Witness ==
  /\ runPc = "chunk"
  /\ Len(chunks) = 2
  /\ resolved = 1
  /\ reads = 1
  /\ Len(buffer) >= 2 * chunkSize

\* C16: whenever a read is requested the buffer holds fewer than chunkSize
\* bytes, so it never holds more than chunkSize - 1 bytes plus one read.
C16_BufferBound ==
  /\ runPc = "read" => Len(buffer) < chunkSize
  /\ Len(buffer) <= (chunkSize - 1) + MaxRead

C16_Witness ==
  /\ chunkSize >= 2
  /\ Len(buffer) = (chunkSize - 1) + MaxRead
  /\ runPc = "chunk"

\* The chunks of a source: the i-th holds the bytes from (i - 1) * size.
ChunksOf(src, size) ==
  [i \in 1..CeilDiv(Len(src), size) |->
     [bytes |-> SubSeq(src, (i - 1) * size + 1,
                       IF i * size < Len(src) THEN i * size ELSE Len(src)),
      offset |-> (i - 1) * size]]

\* C33: the chunks passed to onChunk depend on the bytes of the source and
\* on chunkSize only: at any moment they are the first chunks of the source
\* cut at multiples of chunkSize, and all of them when the run is done,
\* however the reader split the source into reads.
C33_ChunksIndependentOfReads ==
  /\ Len(chunks) <= Len(ChunksOf(source, chunkSize))
  /\ \A i \in 1..Len(chunks) : chunks[i] = ChunksOf(source, chunkSize)[i]
  /\ runPc = "done" => chunks = ChunksOf(source, chunkSize)

\* Five bytes, chunkSize 2, read as 3 bytes, an empty read, 1 byte, 1 byte.
C33_Witness ==
  /\ runPc = "done"
  /\ Len(source) = 5
  /\ chunkSize = 2
  /\ reads = 5
  /\ emptyReads = 1
  /\ Len(chunks) = 3

\* C34: finishedPointer + buffer.length = loadedPointer and
\* 0 <= finishedPointer <= loadedPointer <= L whenever run() is suspended;
\* finishedPointer never decreases; when run() has resolved the buffer is
\* empty and finishedPointer = loadedPointer = L.
C34_Pointers ==
  /\ [](/\ finishedPointer + Len(buffer) = loadedPointer
         /\ 0 <= finishedPointer
         /\ finishedPointer <= loadedPointer
         /\ loadedPointer <= Len(source)
         /\ runPc = "done" =>
              (buffer = <<>> /\ finishedPointer = Len(source)
                 /\ loadedPointer = Len(source)))
  /\ [][finishedPointer' >= finishedPointer]_vars

C34_Witness ==
  /\ runPc = "done"
  /\ Len(source) = 5
  /\ chunkSize = 3
  /\ finishedPointer = 5
  /\ loadedPointer = 5
  /\ buffer = <<>>

\* C35: a run in which no read and no onChunk invocation fails resolves;
\* every turn of the flush loop shortens the buffer, by chunkSize >= 1 bytes.
C35_RunTerminates ==
  /\ [](runPc # "failed") => <>(runPc = "done")
  /\ [][(runPc = "chunk" /\ resolved' # resolved) =>
          (chunkSize >= 1 /\ Len(buffer') = Len(buffer) - chunkSize)]_vars

C35_Witness ==
  /\ runPc = "done"
  /\ Len(source) = 5
  /\ chunkSize = 1
  /\ resolved = 5
  /\ rejection = NA

\* ---------------------------------------------------- callRoute: claims

\* callRoute got a response with a non-success status.
RouteFailedStatus == routePc = "Done" /\ ~routeResp.failed /\ ~Ok(routeResp.status)

\* The status table as the claim states it.
ClaimedStatusMessage(status) ==
  CASE status = 400 -> "Invalid Route Name or Arguments"
    [] status = 401 -> "Not Authenticated"
    [] status = 403 -> "Insufficient Permission"
    [] status = 404 -> "Endpoint Not Found (Check endpoint URL.)"
    [] status = 500 -> "Unknown Backend Server Error"
    [] status = 502 -> "Bad Gateway (Backend server may be off.)"
    [] OTHER -> "Unknown Error"

\* C17: for every non-success status callRoute throws an error whose
\* message is the one the table gives, "Unknown Error" for a status that is
\* not in the table; the begin step of callLiveRoute has the same table.
C17_StatusTable ==
  /\ RouteFailedStatus =>
       /\ routeOutcome.kind = "threw"
       /\ routeOutcome.error.message = ClaimedStatusMessage(routeResp.status)
  /\ RouteFailedStatus =>
       BeginStatusMessage(routeResp.status) = ClaimedStatusMessage(routeResp.status)

\* C18: for a non-success status the message of the error depends on the
\* status alone, whatever the body: 404 gives "Endpoint Not Found (Check
\* endpoint URL.)" for a JSON body, a body that is not JSON and an empty one.
C18_MessageFromStatusOnly ==
  RouteFailedStatus =>
    /\ routeOutcome.kind = "threw"
    /\ routeResp.status = 404 =>
         routeOutcome.error.message = "Endpoint Not Found (Check endpoint URL.)"
    /\ \A b \in RouteBodies :
         callRoute([routeResp EXCEPT !.body = b]).error.message
           = routeOutcome.error.message

C18_Witness ==
  /\ routePc = "Done"
  /\ routeResp.status = 404
  /\ routeResp.body = "<html>"
  /\ routeOutcome.kind = "threw"
  /\ routeOutcome.error.message = "Endpoint Not Found (Check endpoint URL.)"

\* callRoute got a success status with a body that is not JSON.
RouteBodyNotJson ==
  /\ routePc = "Done"
  /\ ~routeResp.failed
  /\ Ok(routeResp.status)
  /\ routeResp.body \notin JsonTexts

\* C19 as stated: a success status with a body that is not JSON makes
\* callRoute throw an error with the message "Server responded with success
\* http code, but response body was not valid, this is not expected".
C19_NotJsonMessageAsStated ==
  RouteBodyNotJson =>
    /\ routeOutcome.kind = "threw"
    /\ routeOutcome.error.message =
         "Server responded with success http code, but response body was not valid, this is not expected"

\* C19 as amended: a success status with a body that is not JSON makes
\* callRoute throw an RPCerror, without cause, with the message "Server
\* responded with success http code, but response body was not valid json.
\* This is not expected."
C19_NotJsonMessage ==
  RouteBodyNotJson =>
    /\ routeOutcome.kind = "threw"
    /\ routeOutcome.error.type = "RPCerror"
    /\ routeOutcome.error.cause = NoCause
    /\ routeOutcome.error.message =
         "Server responded with success http code, but response body was not valid json. This is not expected."

C19_Witness ==
  /\ RouteBodyNotJson
  /\ routeResp.status = 200
  /\ routeResp.body = ""
  /\ routeOutcome.kind = "threw"

\* C20: when fetch or the body read throws, callRoute throws an RPCerror
\* with the message "An unexpected error occurred" whose cause is the
\* serialized exception.
C20_TransportFailure ==
  (routePc = "Done" /\ routeResp.failed) =>
    /\ routeOutcome.kind = "threw"
    /\ routeOutcome.error.type = "RPCerror"
    /\ routeOutcome.error.message = "An unexpected error occurred"
    /\ routeOutcome.error.cause.kind = "exception"
    /\ routeOutcome.error.cause.message = routeResp.exception

C20_Witness ==
  /\ routePc = "Done"
  /\ routeResp.failed
  /\ routeResp.exception = "Failed to fetch"
  /\ routeOutcome.kind = "threw"
  /\ routeOutcome.error.cause.message = "Failed to fetch"
  /\ Len(requests) = 1

\* callRoute got a success status with a body that is JSON.
RouteBodyJson ==
  /\ routePc = "Done"
  /\ ~routeResp.failed
  /\ Ok(routeResp.status)
  /\ routeResp.body \in JsonTexts

\* C21: a success status with a body that parses as JSON makes callRoute
\* return the parsed payload and throw nothing, for every JSON value:
\* null, false, 0 and the empty string included.
C21_ReturnsParsedPayload ==
  RouteBodyJson =>
    /\ routeOutcome.kind = "returned"
    /\ routeOutcome.error = NoError
    /\ routeOutcome.value =
         (CASE routeResp.body = "null" -> "null"
            [] routeResp.body = "false" -> "false"
            [] routeResp.body \in {"0", "0.0"} -> "0"
            [] routeResp.body = "\"\"" -> "\"\""
            [] OTHER -> routeResp.body)

C21_Witness ==
  /\ RouteBodyJson
  /\ routeResp.status = 200
  /\ routeResp.body = "false"
  /\ routeOutcome = Returned("false")

\* C22: for a non-success status the cause of the error carries the status,
\* the body text, and the parsed body when the body is JSON; when the body
\* is not JSON the cause has no parsed body.
C22_CauseOfStatusFailure ==
  RouteFailedStatus =>
    /\ routeOutcome.kind = "threw"
    /\ routeOutcome.error.cause.kind = "http"
    /\ routeOutcome.error.cause.status = routeResp.status
    /\ routeOutcome.error.cause.body = routeResp.body
    /\ routeOutcome.error.cause.data =
         (IF routeResp.body \in JsonTexts THEN JsonParse(routeResp.body) ELSE UNDEF)

\* --------------------------------------------------- either call: claims

\* C26: no retries.  A call of callRoute issues one request, whether it
\* returns or throws; a call of callLiveRoute issues one begin request and
\* never issues it again, whatever the begin answer and however often the
\* socket reconnects.
C26_NoRetries ==
  /\ Len(requests) <= 1
  /\ routePc \in {"Fetching", "Done"} => Len(requests) = 1
  /\ fetches <= 1
  /\ livePc \in {"Opening", "Streaming", "Settled"} => fetches = 1

C26_Witness ==
  /\ livePc = "Settled"
  /\ outcome.kind = "returned"
  /\ Len(joins) = 2
  /\ fetches = 1

\* The same call with another timeout.
WithTimeout(call, t) == [call EXCEPT !.timeout = t]

\* The requests carry no abort signal and are those of the call without
\* timeout.
NoAbortSignal ==
  /\ \A i \in 1..Len(requests) :
       /\ requests[i].signal = UNDEF
       /\ requests[i] = RouteRequest(WithTimeout(routeCall, UNDEF))
  /\ beginRequest # NoRequest =>
       /\ beginRequest.signal = UNDEF
       /\ beginRequest = BeginRequest(WithTimeout(liveCall, UNDEF))

\* The step that issues a request is the step of every call that differs
\* in the timeout only.
TimeoutNotRead ==
  /\ IssueBegin => \A t \in Timeouts : IssueBeginOf(WithTimeout(liveCall, t))
  /\ RouteFetch => \A t \in Timeouts : RouteFetchOf(WithTimeout(routeCall, t))

C27_ConnectionFailureRejects ==
  (livePc = "Streaming" /\ socket = "connecting")
    ~> (socket = "connected" \/ outcome.kind = "threw")

\* The begin step got a success status and a JSON body without a task_id.
BeginBodyMalformed ==
  /\ livePc \in {"Streaming", "Settled"}
  /\ ~beginResp.failed
  /\ Ok(beginResp.status)
  /\ beginResp.body \in {"{}", "null"}

\* C30: a begin answer with a success status and a JSON body that carries
\* no task_id (such as {} or null) makes callLiveRoute throw an RPCerror; no
\* socket is opened and no join with an undefined task id is emitted.
C30_MalformedBeginBodyFails ==
  /\ BeginBodyMalformed =>
       /\ outcome.kind = "threw"
       /\ outcome.error.type = "RPCerror"
       /\ socket = "none"
       /\ joins = <<>>
  /\ \A i \in 1..Len(joins) : joins[i] # UNDEF

\* C31: once a fatal_error event was delivered the socket is disconnected
\* and the call has thrown, also when the onFatalError handler throws; and
\* after a terminal event the call is never pending with a socket that is
\* still open.
C31_FatalErrorAbortsDespiteThrow ==
  /\ (inbound # <<>> /\ Last(inbound).kind = "fatal_error") =>
       (socket = "disconnected" /\ outcome.kind = "threw")
  /\ FirstTerminal > 0 =>
       ~(outcome.kind = "pending" /\ socket \in {"connecting", "connected"})

\* C32: every connect of the socket emits one join with the task_id of the
\* call, a join is emitted on a connect only and never after a terminal
\* event, and an event delivered invokes at most one handler once.
C32_OneJoinPerConnect ==
  [][/\ (socket = "connecting" /\ socket' = "connected") =>
          joins' = Append(joins, task_id)
     /\ joins' # joins =>
          /\ socket = "connecting"
          /\ socket' = "connected"
          /\ FirstTerminal = 0
     /\ inbound' # inbound => Len(calls') <= Len(calls) + 1
     /\ inbound' = inbound => calls' = calls]_vars

\* ----------------------------------------------- concurrent calls: claims

Other(c) == IF c = "A" THEN "B" ELSE "A"

\* The state of the socket of call c.
SocketStateOf(c) == IF pairSocketOf[c] = NA THEN "none" ELSE sockState[pairSocketOf[c]]

\* All that belongs to call c: its position, handlers, task, socket and the
\* state of that socket, its subscription, handler invocations and outcome.
ViewOf(c) ==
  <<pairPc[c], pairHandlers[c], pairTask[c], pairSocketOf[c], SocketStateOf(c),
    pairJoins[c], pairCalls[c], pairOutcome[c]>>

\* The events on a socket for which call c has a handler, as invocations.
RECURSIVE PairInvocations(_, _)
PairInvocations(c, events) ==
  IF events = <<>>
    THEN <<>>
    ELSE LET data == Head(events)
             rest == PairInvocations(c, Tail(events))
         IN  IF data.kind \in pairHandlers[c]
               THEN <<[handler |-> HandlerName(data.kind), arg |-> data]>> \o rest
               ELSE rest

\* C28: two calls running at the same time are independent.  Their sockets
\* differ; the handler invocations of a call are those of the events
\* delivered on its own socket; and every step changes what belongs to one
\* call only, so a terminal event on the socket of A settles A alone and
\* disconnects the socket of A alone.
C28_CallsIndependent ==
  /\ [](/\ pairSocketOf["A"] # NA => pairSocketOf["A"] # pairSocketOf["B"]
         /\ \A s \in SocketIds : Cardinality(sockListeners[s]) <= 1
         /\ \A c \in Calls :
              pairCalls[c] =
                (IF pairSocketOf[c] = NA
                   THEN <<>>
                   ELSE PairInvocations(c, sockInbound[pairSocketOf[c]])))
  /\ [][\A c \in Calls : ViewOf(c)' # ViewOf(c) => ViewOf(Other(c))' = ViewOf(Other(c))]_vars

C28_Witness ==
  /\ pairOutcome["A"].kind = "threw"
  /\ SocketStateOf("A") = "disconnected"
  /\ Len(pairCalls["A"]) = 2
  /\ pairPc["B"] = "Streaming"
  /\ pairTask["B"] = pairTask["A"]
  /\ SocketStateOf("B") = "connected"
  /\ Len(pairCalls["B"]) = 1

\* ------------------------------------------------ the catch blocks: claims

\* The caught value is an RPCerror.
CaughtRPCerror == thrown \in Refs /\ heap[thrown].class = "RPCerror"

\* C23: whatever value is thrown inside callRoute or callLiveRoute, the
\* caller gets an RPCerror; no call throws a value of another type.
C23_OneErrorType ==
  catchPc = "caught" => rethrown.class = "RPCerror"

\* C24: a caught value that is already an RPCerror is thrown on unchanged:
\* the same object, with the message and the cause it has, not wrapped in a
\* new RPCerror.
C24_ClassifyIdempotent ==
  (catchPc = "caught" /\ CaughtRPCerror) =>
    /\ rethrown.ref = thrown
    /\ rethrown.class = "RPCerror"
    /\ rethrown.message = heap[thrown].x
    /\ rethrown.cause = heap[thrown].y
    /\ Classify(heap, rethrown.ref) = rethrown

C24_Witness ==
  /\ catchPc = "caught"
  /\ boundary = "callLiveRoute"
  /\ CaughtRPCerror
  /\ heap[thrown].x = "1"
  /\ heap[thrown].y = "#2"
  /\ rethrown.ref = thrown

\* C25: wrapping a caught value never throws: for every value that is not
\* an RPCerror the catch block throws a new RPCerror whose cause is the
\* value with its unserializable parts replaced by null, also when the value
\* is unserializable at the top level or refers to itself.
C25_ClassifyNeverFails ==
  (catchPc = "caught" /\ ~CaughtRPCerror) =>
    /\ rethrown.ref = "new"
    /\ rethrown.class = "RPCerror"
    /\ rethrown.message = "An unexpected error occurred"
    /\ thrown \in {UNDEF, FUNC} => rethrown.cause = "null"
    /\ (thrown = "#1" /\ heap["#1"] = [class |-> "Object", x |-> "#1", y |-> FUNC])
         => rethrown.cause = "{\"x\":null,\"y\":null}"

\* ------------------------------------------------- upload page: claims

\* The positions in serverCalls of the calls of a route.
CallsOf(route) == {i \in DOMAIN serverCalls : serverCalls[i].route = route}

\* The server answered the write call i with the size of its chunk.
WrittenInFull(i) ==
  /\ i \in DOMAIN replies
  /\ ~replies[i].threw
  /\ replies[i].integer
  /\ replies[i].value = serverCalls[i].size

\* The write calls are the calls 2, 3, ...: the k-th of them carries the
\* k-th chunk of the streamer, at its offset, and the id new-object returned.
WritesInOrder ==
  \A i \in CallsOf(WriteRoute) :
    /\ i > 1
    /\ i - 1 \in DOMAIN chunks
    /\ serverCalls[i].position = chunks[i - 1].offset
    /\ serverCalls[i].data = chunks[i - 1].bytes
    /\ serverCalls[i].object_id = objectId
    /\ objectId = replies[1].id
    /\ objectId \in ObjectIds
    /\ i > 2 => /\ serverCalls[i - 1].route = WriteRoute
                /\ serverCalls[i - 1].position < serverCalls[i].position

\* create is called after every byte of the file was written.
CreateAfterWrites ==
  \A c \in CallsOf(CreateRoute) :
    /\ c = Cardinality(CallsOf(WriteRoute)) + 2
    /\ \A i \in CallsOf(WriteRoute) : WrittenInFull(i)
    /\ Cardinality(CallsOf(WriteRoute)) = CeilDiv(Len(source), chunkSize)
    /\ finishedPointer = Len(source)
    /\ serverCalls[c].object_id = objectId

\* preprocess is called after create returned, with the id it returned.
PreprocessAfterCreate ==
  \A q \in CallsOf(PreprocessRoute) :
    /\ q > 1
    /\ serverCalls[q - 1].route = CreateRoute
    /\ q - 1 \in DOMAIN replies
    /\ ~replies[q - 1].threw
    /\ serverCalls[q].document_id = replies[q - 1].id
    /\ serverCalls[q].document_id \in DocumentIds

\* C38: onSubmit calls new-object once, then write-object-bytes once per
\* chunk in increasing offset order with the object id new-object returned,
\* then create once, after every chunk was written, then preprocess once with
\* the document id create returned; a call is issued only after the call
\* before it has returned.
C38_CallOrder ==
  /\ Len(serverCalls) <= Len(replies) + 1
  /\ upPc # "none" => CallsOf(NewObjectRoute) = {1}
  /\ WritesInOrder
  /\ CreateAfterWrites
  /\ PreprocessAfterCreate
  /\ Cardinality(CallsOf(CreateRoute)) <= 1
  /\ Cardinality(CallsOf(PreprocessRoute)) <= 1
  /\ upPc = "done" =>
       /\ Len(serverCalls) = Len(chunks) + 3
       /\ serverCalls[Len(serverCalls)].route = PreprocessRoute

C38_Witness ==
  /\ upPc = "done"
  /\ Len(chunks) >= 2
  /\ Len(chunks[Len(chunks)].bytes) < chunkSize

\* A step of the procedure has failed: a call threw or was answered with
\* something else than the size of the chunk, the blob could not be encoded,
\* or the file could not be read.
StepFailed ==
  \/ \E i \in DOMAIN replies : replies[i].threw
  \/ \E i \in CallsOf(WriteRoute) : i \in DOMAIN replies /\ ~WrittenInFull(i)
  \/ writePc = "rejected"
  \/ runPc = "failed"

UploadFailedMessages ==
  {i \in DOMAIN messages : messages[i] = StringMessage("Upload failed.")}

\* No call is issued twice.
NoRetry ==
  \A i, j \in DOMAIN serverCalls :
    (serverCalls[i].route = serverCalls[j].route
       /\ serverCalls[i].position = serverCalls[j].position) => i = j

UploadAborted ==
  /\ StepFailed =>
       /\ upPc \in {"streaming", "failed"}
       /\ Len(replies) = Len(serverCalls)
       /\ \A i \in DOMAIN replies :
            (replies[i].threw \/ (serverCalls[i].route = WriteRoute /\ ~WrittenInFull(i)))
              => i = Len(serverCalls)
       /\ (\E i \in DOMAIN serverCalls : serverCalls[i].route = CreateRoute)
            => replies[Len(replies)].threw
  /\ upPc = "failed" =>
       /\ StepFailed
       /\ Cardinality(UploadFailedMessages) = 1
       /\ messages[Len(messages)] = StringMessage("Upload failed.")
       /\ uploadError # NA
  /\ upPc # "failed" => UploadFailedMessages = {} /\ uploadError = NA
  /\ NoRetry

C40_OneBarPerTitle ==
  \A title \in Titles : Cardinality(BarsOf(progressMessages, title)) <= 1

\* ------------------------------------ toNearestSerializableObject: claims

\* What JSON holds for a slot that is not an object: the value itself when
\* it is serializable, null otherwise.
LeafText(v) == IF v \in {"1", "null"} THEN v ELSE "null"

\* The object #1 has no object in its slots, and both slots are present.
LeafObject ==
  /\ serValue = "#1"
  /\ heap["#1"].class = "Object"
  /\ heap["#1"].x \notin Refs \cup {NA}
  /\ heap["#1"].y \notin Refs \cup {NA}

\* The array [function, {x: undefined, y: 1}].
NestedExample ==
  /\ serValue = "#1"
  /\ heap["#1"] = [class |-> "Array", x |-> FUNC, y |-> "#2"]
  /\ heap["#2"] = [class |-> "Object", x |-> UNDEF, y |-> "1"]

\* C36: toNearestSerializableObject throws exactly when the top-level value
\* is neither a JSON primitive nor an object; for every other value it
\* returns, and a nested value that is not serializable is null in what it
\* returns.
C36_ThrowsOnlyAtTopLevel ==
  serPc = "done" =>
    /\ serialized.threw <=> (serValue \notin SerializablePrimitives \cup Refs)
    /\ ~serialized.threw => serialized.text # NA
    /\ serValue \in SerializablePrimitives => serialized.text = serValue
    /\ LeafObject =>
         serialized.text = "{\"x\":" \o LeafText(heap["#1"].x) \o ",\"y\":"
                             \o LeafText(heap["#1"].y) \o "}"
    /\ NestedExample => serialized.text = "[null,{\"x\":null,\"y\":1}]"

C36_Witness ==
  /\ serPc = "done"
  /\ NestedExample
  /\ ~serialized.threw

\* The JSON text in which an object is null only where the reference closes
\* a cycle, that is where the object is one of its own ancestors.
RECURSIVE FullText(_, _, _)
FullText(h, value, ancestors) ==
  IF value \in Refs
    THEN IF value \in ancestors
           THEN "null"
           ELSE LET o == h[value]
                    up == ancestors \cup {value}
                    t1 == IF o.x = NA THEN NA ELSE FullText(h, o.x, up)
                    t2 == IF o.y = NA THEN NA ELSE FullText(h, o.y, up)
                IN  IF o.class = "Array"
                      THEN Wrap("[", Join(t1, t2), "]")
                      ELSE Wrap("{", Join(Join(Member(FirstKey(o.class), t1),
                                               NameMember(o.class)),
                                          Member(SecondKey(o.class), t2)), "}")
    ELSE LeafText(value)

\* No object of the heap is reachable from itself.
Acyclic ==
  /\ heap["#1"].x # "#1" /\ heap["#1"].y # "#1"
  /\ heap["#2"].x \notin Refs /\ heap["#2"].y \notin Refs

\* The object #2 is in both slots of the object #1.
SharedTwice ==
  /\ serValue = "#1"
  /\ heap["#1"].x = "#2"
  /\ heap["#1"].y = "#2"

\* C37: an object is null only where its reference closes a cycle: in an
\* acyclic value, an object reachable through two properties or two array
\* slots is serialized in full at each of them.
C37_SharedSerializedInFull ==
  (serPc = "done" /\ ~serialized.threw /\ Acyclic) =>
    serialized.text = FullText(heap, serValue, {})

====
